---- MODULE Spec2Model ----
(***************************************************************************)
(* csminer: the mining coordinator of minerlib (PoolLogin, MiningLoop,     *)
(* the worker pool, the activity evaluator), the stats ledger and the      *)
(* stratum client, as a state machine.                                     *)
(***************************************************************************)
EXTENDS Integers, Sequences, FiniteSets, TLC

(***************************************************************************)
(* Program constants (minerlib.go).                                        *)
(***************************************************************************)
MINING_PAUSED_NO_CONNECTION == -2
MINING_PAUSED_SCREEN_ACTIVITY == -3
MINING_PAUSED_BATTERY_POWER == -4
MINING_PAUSED_USER_OVERRIDE == -5
MINING_PAUSED_TIME_EXCLUDED == -6
MINING_PAUSED_NO_LOGIN == -7
MINING_ACTIVE == 1
MINING_ACTIVE_USER_OVERRIDE == 2

STATE_CHANGE_POKE == 1
INCREASE_THREADS_POKE == 6
DECREASE_THREADS_POKE == 7
EXIT_LOOP_POKE == 8
UPDATE_STATS_POKE == 9

OVERRIDE_MINE == 1
OVERRIDE_PAUSE == 2

\* capacity of pokeChannel: make(chan int, 5)
PokeChannelCap == 5
\* lastActivityState := -999 at the start of MiningLoop
NoActivityYet == -999
\* sleepSec := 3 * time.Second
InitialSleepSec == 3
\* client.go 28
NO_WALLET_SPECIFIED_WARNING_CODE == 2
\* stats.GetSnapshot 146: the seconds from the zero time.Time to now.
\* time.Time.Sub saturates them at the largest Duration (9223372036 s);
\* written here as the largest 32-bit integer, above every clock reading
NeverFetchedSeconds == 2147483647

(***************************************************************************)
(* Bounds of the model.                                                    *)
(***************************************************************************)
\* goroutines that call PoolLogin
MaxCallers == 2
\* dispatch loops a behaviour can start
MaxLoops == 2
\* connections the pool accepts in a behaviour
MaxConns == 2
\* threads the engine can run
MaxThreads == 2
\* seconds the backoff of failed reconnects is followed for (sleepSec
\* grows by one second each)
MaxBackoff == 1
\* Spec: PoolLogin calls, setter calls, jobs pushed after the first of a
\* connection, hashes computed, connections the network breaks
MaxLogins == 1
MaxCalls == 2
MaxJobs == 1
MaxHashes == 1
MaxDrops == 1
\* SpecLogin: PoolLogin calls, setter calls
MaxRelogins == 2
MaxReports == 1
\* SpecEval: setter calls
MaxEvalCalls == 1
\* SpecShare: shares found by the workers
MaxShares == 2
\* SpecStats: seconds on the clock, hashes tallied
MaxNow == 7
MaxTallied == 3
\* reports of the screen and of the power state in a behaviour of SpecReport
MaxPowerCalls == 3
\* SpecUpdate: calls of RequestRecentStatsUpdate and of the setters
MaxUpdateCalls == 3
\* SpecStartup: calls of the setters before the login and of
\* RequestRecentStatsUpdate after it
MaxStartupCalls == 3
\* SpecChatOut: chats queued; SpecChatIn: fetches of chats, the server's
\* tokens, the chats of one response
MaxChats == 6
MaxFetches == 3
MaxToken == 2
MaxChatsPerFetch == 2

(***************************************************************************)
(* Values.                                                                 *)
(***************************************************************************)
\* usernames are sequences of characters; the third holds the '.' separator
UserA == <<"a">>
UserB == <<"b">>
UserDot == <<"w", ".", "a">>
Users == {UserA, UserB, UserDot}
NoArgs == <<>>
\* the string ""
EmptyString == <<>>

\* seed hashes as the pool sends them: hex strings, as sequences of
\* characters; the third is not hex
SeedAA == <<"a", "a">>
SeedBB == <<"b", "b">>
SeedZZ == <<"z", "z">>
\* a job: id, seed hash, difficulty of its target
Jobs == { [id |-> 1, seed |-> SeedAA, diff |-> 1],
          [id |-> 2, seed |-> SeedBB, diff |-> 2],
          [id |-> 3, seed |-> SeedZZ, diff |-> 1] }
\* var job *client.MultiClientJob (nil)
NoJob == [id |-> 0, seed |-> <<>>, diff |-> 0]

LoopIds == 1..MaxLoops
Callers == 1..MaxCallers
ConnIds == 1..MaxConns
Pokes == {STATE_CHANGE_POKE, INCREASE_THREADS_POKE, DECREASE_THREADS_POKE,
          UPDATE_STATS_POKE}
Hours == 0..23
ExcludeHours == 0..24
\* exclude windows of the evaluator's runs: none, over midnight, by day
EvalWindows == {<<0, 0>>, <<22, 6>>, <<9, 17>>}
\* the hours a caller of InitMiner may pass, and the codes of rx.InitRX
\* (1: success, 2: success but no huge pages, -1: unexpected failure)
ArgHours == {-1, 0, 12, 24, 25}
InitRXCodes == {-1, 1, 2}

\* chat (chat.go 27-30)
HASHES_PER_CHAT == 5000
MAX_CHATS_PER_SHARE == 5
\* the salt keeps its sign bit clear (38); the model's integers have 31 bits
MaxRandID == 2147483647
RandIDs == {0, 5, MaxRandID}
\* the chats a user sends, the difficulties of the shares they go with
Messages == {"hi", "yo"}
Diffs == {0, 4999, 5000, 10000, 25000, 30000}
\* the chats the server returns, its tokens
ChatResults == {"gm", "gn"}
Tokens == 0..MaxToken
\* the last call of a chat function: its arguments (diff; cr and tokenSent)
\* and what it returned (id; r, a nil slice or a list, or a chat)
NoChatCall == [fn |-> "none", diff |-> 0, id |-> 0, r |-> <<>>,
               isNil |-> FALSE, cr |-> [Chats |-> <<>>, NextToken |-> 0],
               tokenSent |-> 0, has |-> FALSE]


VARIABLES
    \* minerlib: miner config
    plArgs, threads, lastSeed, excludeHourStart, excludeHourEnd,
    doneChanMutex, miningLoopDoneChan, doneChans,
    batteryPower, screenIdle, miningOverride,
    \* stratum client and the connections it made
    cl, conns,
    \* poke channel and the goroutines blocked sending on it
    pokeChannel, pokeSenders,
    \* worker pool, share submission goroutines
    workers, stopper, submitters,
    \* MiningLoop goroutines, PoolLogin callers
    loops, callers,
    \* stats ledger
    startTime, lastResetTime, lastUpdateTime,
    sharesAccepted, sharesRejected, poolSideHashes,
    clientSideHashes, recentHashes,
    \* the native engine
    rx,
    \* clocks: seconds, hour of day
    now, hour,
    \* the process died (Go runtime fatal error or panic)
    crashed,
    \* result of the last evaluation of a pure function
    evalOut,
    \* what the environment may still do in this behaviour
    budget,
    \* history: hashes computed since the last stats.ResetRecent(); the last
    \* report of the screen state was "not idle", made with the activity ACTIVE
    hashedSinceReset, idleReport,
    \* stats ledger: the user of the pool-side stats, when they were fetched
    lastPoolUsername, lastPoolUpdateTime,
    \* chat: the queue of chats to send and how many were handed out, the
    \* chats received and how many were handed out, the token of the next
    \* fetch, the salt of the ids
    chatQueue, chatToSendIndex, receivedQueue, chatReceivedIndex, nextToken,
    randID,
    \* fetches of chats whose response is still to come; the last call of a
    \* chat function and what it returned
    fetches, chatOut,
    \* history: the id SendChat returned for each queued chat; the fetches
    \* whose chats were appended, in the order of their responses
    issuedIds, appended,
    \* stats ledger: the holder of stats.mutex ("" when free); the call of
    \* GetSnapshot in progress, with the values of lastUpdateTime it read
    statsMutex, snap

configVars == <<plArgs, threads, lastSeed, excludeHourStart, excludeHourEnd>>
flagVars == <<batteryPower, screenIdle, miningOverride>>
loginVars == <<doneChanMutex, miningLoopDoneChan, doneChans, callers>>
clientVars == <<cl, conns>>
pokeVars == <<pokeChannel, pokeSenders>>
workerVars == <<workers, stopper, submitters>>
counterVars == <<sharesAccepted, sharesRejected, poolSideHashes>>
hashVars == <<clientSideHashes, recentHashes>>
timeVars == <<startTime, lastResetTime, lastUpdateTime>>
clockVars == <<now, hour>>
histVars == <<hashedSinceReset, idleReport>>
poolVars == <<lastPoolUsername, lastPoolUpdateTime>>
chatVars == <<chatQueue, chatToSendIndex, receivedQueue, chatReceivedIndex,
              nextToken, randID, fetches, chatOut, issuedIds, appended>>
lockVars == <<statsMutex, snap>>

vars == <<plArgs, threads, lastSeed, excludeHourStart, excludeHourEnd,
          doneChanMutex, miningLoopDoneChan, doneChans,
          batteryPower, screenIdle, miningOverride, cl, conns,
          pokeChannel, pokeSenders, workers, stopper, submitters,
          loops, callers, startTime, lastResetTime, lastUpdateTime,
          sharesAccepted, sharesRejected, poolSideHashes,
          clientSideHashes, recentHashes, rx, now, hour, crashed, evalOut,
          budget, hashedSinceReset, idleReport,
          lastPoolUsername, lastPoolUpdateTime,
          chatQueue, chatToSendIndex, receivedQueue, chatReceivedIndex,
          nextToken, randID, fetches, chatOut, issuedIds, appended,
          statsMutex, snap>>

(***************************************************************************)
(* Pure functions.                                                         *)
(***************************************************************************)
\* strings.Index(args.Username, ".") != -1
HasDot(u) == \E i \in DOMAIN u : u[i] = "."

HexDigits == {"0", "1", "2", "3", "4", "5", "6", "7", "8", "9",
              "a", "b", "c", "d", "e", "f"}
HexValue(c) ==
    CASE c = "0" -> 0 [] c = "1" -> 1 [] c = "2" -> 2 [] c = "3" -> 3
      [] c = "4" -> 4 [] c = "5" -> 5 [] c = "6" -> 6 [] c = "7" -> 7
      [] c = "8" -> 8 [] c = "9" -> 9 [] c = "a" -> 10 [] c = "b" -> 11
      [] c = "c" -> 12 [] c = "d" -> 13 [] c = "e" -> 14 [] c = "f" -> 15
      [] OTHER -> -1

\* hex.DecodeString: err on odd length or a character that is no hex digit
DecodeString(s) ==
    IF Len(s) % 2 = 0 /\ \A i \in DOMAIN s : s[i] \in HexDigits
    THEN [err |-> FALSE,
          bytes |-> [i \in 1..(Len(s) \div 2) |->
                        16 * HexValue(s[2 * i - 1]) + HexValue(s[2 * i])]]
    ELSE [err |-> TRUE, bytes |-> <<>>]

\* a window over midnight taken as the hours from startHr on and before endHr
timeExcludedOverMidnight(currHr, startHr, endHr) ==
    IF startHr < endHr
    THEN currHr >= startHr /\ currHr < endHr
    ELSE currHr >= startHr \/ currHr < endHr

\* timeExcluded(): configMutex is held by the caller
timeExcludedAt(currHr, startHr, endHr) ==
    IF startHr < endHr
    THEN currHr >= startHr /\ currHr < endHr
    ELSE currHr < startHr /\ currHr >= endHr

timeExcluded == timeExcludedAt(hour, excludeHourStart, excludeHourEnd)

\* cl.IsAlive()
IsAlive == cl.alive

\* an evaluator that looks at the connection before the pause override
ActivityConnFirst(login, override, alive, excluded, battery, idle) ==
    IF login = NoArgs THEN MINING_PAUSED_NO_LOGIN
    ELSE IF ~alive THEN MINING_PAUSED_NO_CONNECTION
    ELSE IF override = OVERRIDE_PAUSE THEN MINING_PAUSED_USER_OVERRIDE
    ELSE IF override = OVERRIDE_MINE THEN MINING_ACTIVE_USER_OVERRIDE
    ELSE IF excluded THEN MINING_PAUSED_TIME_EXCLUDED
    ELSE IF battery THEN MINING_PAUSED_BATTERY_POWER
    ELSE IF ~idle THEN MINING_PAUSED_SCREEN_ACTIVITY
    ELSE MINING_ACTIVE

\* getMiningActivityState(): one critical section of configMutex
getMiningActivityStateOf(login, override, alive, excluded, battery, idle) ==
    IF login = NoArgs THEN MINING_PAUSED_NO_LOGIN
    ELSE IF override = OVERRIDE_PAUSE THEN MINING_PAUSED_USER_OVERRIDE
    ELSE IF ~alive THEN MINING_PAUSED_NO_CONNECTION
    ELSE IF override = OVERRIDE_MINE THEN MINING_ACTIVE_USER_OVERRIDE
    ELSE IF excluded THEN MINING_PAUSED_TIME_EXCLUDED
    ELSE IF battery THEN MINING_PAUSED_BATTERY_POWER
    ELSE IF ~idle THEN MINING_PAUSED_SCREEN_ACTIVITY
    ELSE MINING_ACTIVE

getMiningActivityState ==
    getMiningActivityStateOf(plArgs, miningOverride, IsAlive, timeExcluded,
                             batteryPower, screenIdle)

(***************************************************************************)
(* State helpers.                                                          *)
(***************************************************************************)
LiveLoops == {l \in LoopIds : loops[l].pc \notin {"unborn", "dead"}}
Quiesced == stopper = 1 /\ workers = {}
\* goroutines started by "go pokeJobDispatcher(p)" and still blocked
PendingSenders ==
    pokeSenders[STATE_CHANGE_POKE] + pokeSenders[INCREASE_THREADS_POKE]
      + pokeSenders[DECREASE_THREADS_POKE] + pokeSenders[UPDATE_STATS_POKE]
InFlightPokes == Len(pokeChannel) + PendingSenders

NoConn == [st |-> "unused", job |-> NoJob, open |-> FALSE, user |-> NoArgs]
NoLoop == [pc |-> "unborn", job |-> NoJob, lastActivityState |-> NoActivityYet,
           jobChan |-> 0, newChan |-> 0, sleepSec |-> InitialSleepSec,
           ret |-> "", poke |-> 0]
\* one more event of kind k, while the behaviour's budget has one
Spend(k) == budget[k] > 0 /\ budget' = [budget EXCEPT ![k] = @ - 1]

\* a caller of PoolLogin: where it is, its arguments, what Connect returned
\* to it (err, ccode) and the PoolLoginResponse it got
NoCaller == [pc |-> "idle", args |-> NoArgs, err |-> FALSE, ccode |-> 0,
             code |-> 0, MessageID |-> 0, Message |-> ""]
NoEval == [fn |-> "none", MiningActivity |-> 0, excluded |-> FALSE,
           isMining |-> FALSE, RecentHashrate |-> <<0, 1>>,
           PoolUsername |-> <<>>, SecondsOld |-> 0,
           args |-> <<>>, engine |-> 0, Code |-> 0]

\* no call of stats.GetSnapshot in progress
NoSnap == [pc |-> "idle", isMining |-> FALSE, overallAt |-> 0, recentAt |-> 0,
           elapsedOverall |-> 0, elapsedRecent |-> 0]

\* Client.Close(): no-op on a client that is not alive
ClosedClient(c) == [c EXCEPT !.alive = FALSE]
ClosedConns(c, cn) ==
    IF c.alive THEN [cn EXCEPT ![c.conn].open = FALSE] ELSE cn

(***************************************************************************)
(* The state after InitMiner(threads, 0, 0) succeeded and stats.Init().    *)
(***************************************************************************)
\* the engine before rx.InitRX: it has no thread
NoRx == [threads |-> 0, seed |-> <<>>, ok |-> TRUE]

\* the package variables but the thread count and the engine
InitZero ==
    /\ lastSeed = <<>>
    /\ doneChanMutex = 0
    /\ miningLoopDoneChan = 0
    /\ doneChans = [l \in LoopIds |-> 0]
    /\ conns = [c \in ConnIds |-> NoConn]
    /\ pokeChannel = <<>>
    /\ pokeSenders = [p \in Pokes |-> 0]
    /\ workers = {}
    /\ stopper = 0
    /\ submitters = {}
    /\ loops = [l \in LoopIds |-> NoLoop]
    /\ callers = [p \in Callers |-> NoCaller]
    /\ startTime = 0
    /\ lastResetTime = 0
    /\ lastUpdateTime = 0
    /\ sharesAccepted = 0
    /\ sharesRejected = 0
    /\ poolSideHashes = 0
    /\ clientSideHashes = 0
    /\ recentHashes = 0
    /\ now = 0
    /\ crashed = FALSE
    /\ evalOut = NoEval
    /\ hashedSinceReset = 0
    /\ idleReport = FALSE
    /\ lastPoolUsername = EmptyString
    /\ lastPoolUpdateTime = 0
    /\ chatQueue = <<>>
    /\ chatToSendIndex = 0
    /\ receivedQueue = <<>>
    /\ chatReceivedIndex = 0
    /\ nextToken = 0
    /\ fetches = <<>>
    /\ chatOut = NoChatCall
    /\ issuedIds = <<>>
    /\ appended = <<>>
    /\ statsMutex = ""
    /\ snap = NoSnap

\* the salt in the specifications that call no chat function
OneRandID == randID = 5

InitCommon ==
    /\ InitZero
    /\ OneRandID
    /\ threads = 1
    /\ rx = [NoRx EXCEPT !.threads = 1]

\* nobody logged in, no report made yet (the zero values of 63-89)
InitFlags ==
    /\ plArgs = NoArgs
    /\ cl = [alive |-> FALSE, conn |-> 0]
    /\ batteryPower = FALSE
    /\ screenIdle = FALSE
    /\ miningOverride = 0

\* InitMiner(1, 0, 0), at noon
InitMiner ==
    /\ InitCommon
    /\ InitFlags
    /\ excludeHourStart = 0
    /\ excludeHourEnd = 0
    /\ hour = 12

NoBudget == [logins |-> 0, calls |-> 0, jobs |-> 0, hashes |-> 0,
             shares |-> 0, drops |-> 0]

Init ==
    /\ InitMiner
    /\ budget = [NoBudget EXCEPT !.logins = MaxLogins, !.calls = MaxCalls,
                                 !.jobs = MaxJobs, !.hashes = MaxHashes,
                                 !.drops = MaxDrops]

InitLogin ==
    /\ InitMiner
    /\ budget = [NoBudget EXCEPT !.logins = MaxRelogins, !.calls = MaxReports]

\* InitMiner, then one login, one report of the screen state, workers
\* that find shares, one loss of the connection
InitShare ==
    /\ InitMiner
    /\ budget = [NoBudget EXCEPT !.logins = MaxLogins, !.calls = MaxReports,
                                 !.hashes = MaxShares, !.shares = MaxShares,
                                 !.drops = MaxDrops]

\* the inputs of the activity evaluator: any login and client state, any
\* flags, any hour, one of the exclude windows
InitEval ==
    /\ InitCommon
    /\ plArgs \in {NoArgs, UserA}
    /\ cl \in {[alive |-> a, conn |-> 0] : a \in BOOLEAN}
    /\ batteryPower \in BOOLEAN
    /\ screenIdle \in BOOLEAN
    /\ miningOverride \in {0, OVERRIDE_MINE, OVERRIDE_PAUSE}
    /\ hour \in Hours
    /\ \E w \in EvalWindows : excludeHourStart = w[1] /\ excludeHourEnd = w[2]
    /\ budget = [NoBudget EXCEPT !.calls = MaxEvalCalls]

\* the inputs of timeExcluded: any hour, any window InitMiner accepts
InitTime ==
    /\ InitCommon
    /\ InitFlags
    /\ hour \in Hours
    /\ excludeHourStart \in ExcludeHours
    /\ excludeHourEnd \in ExcludeHours
    /\ budget = NoBudget

(***************************************************************************)
(* Stats ledger (stats.go).                                                *)
(***************************************************************************)
\* a reset of the recent window that leaves lastUpdateTime alone
ResetRecentWindowOnly ==
    /\ recentHashes' = 0
    /\ lastResetTime' = now
    /\ hashedSinceReset' = 0
    /\ UNCHANGED <<startTime, lastUpdateTime, clientSideHashes>>

\* a reset of the recent window that also clears the lifetime hash count
ResetRecentAndLifetime ==
    /\ recentHashes' = 0
    /\ lastUpdateTime' = now
    /\ lastResetTime' = now
    /\ hashedSinceReset' = 0
    /\ clientSideHashes' = 0
    /\ UNCHANGED startTime

\* stats.ResetRecent()
ResetRecent ==
    /\ recentHashes' = 0
    /\ lastUpdateTime' = now
    /\ lastResetTime' = now
    /\ hashedSinceReset' = 0
    /\ UNCHANGED <<startTime, clientSideHashes>>

\* stats.RecentStatsNowAccurate()
RecentStatsNowAccurate ==
    /\ lastUpdateTime' = now
    /\ UNCHANGED <<startTime, lastResetTime, hashVars, hashedSinceReset>>

\* a tally that counts the hashes in the recent counter only
TallyRecentOnly(hashes) ==
    /\ recentHashes' = recentHashes + hashes
    /\ UNCHANGED clientSideHashes


\* stats.TallyHashes(hashes)
TallyHashes(hashes) ==
    /\ clientSideHashes' = clientSideHashes + hashes
    /\ recentHashes' = recentHashes + hashes

\* an accepted share credited with one pool-side hash whatever its target
ShareAcceptedOne(diffTarget) ==
    /\ sharesAccepted' = sharesAccepted + 1
    /\ poolSideHashes' = poolSideHashes + 1
    /\ UNCHANGED sharesRejected


\* stats.ShareAccepted(diffTarget)
ShareAccepted(diffTarget) ==
    /\ sharesAccepted' = sharesAccepted + 1
    /\ poolSideHashes' = poolSideHashes + diffTarget
    /\ UNCHANGED sharesRejected

\* stats.ShareRejected()
ShareRejected ==
    /\ sharesRejected' = sharesRejected + 1
    /\ UNCHANGED <<sharesAccepted, poolSideHashes>>

\* stats.GetSnapshot 116: elapsedRecent, in seconds
elapsedRecent == lastUpdateTime - lastResetTime

\* the "not enough data" value of Snapshot.RecentHashrate, as a fraction
NoRecentHashrate == <<-1, 1>>

\* a snapshot that takes five seconds of the recent window as enough
RecentHashrateFromFive(isMining) ==
    IF ~isMining THEN <<0, 1>>
    ELSE IF elapsedRecent >= 5 THEN <<recentHashes, elapsedRecent>>
    ELSE NoRecentHashrate

\* a snapshot that computes the recent hashrate also when not mining
RecentHashrateAlsoIdle(isMining) ==
    IF elapsedRecent > 5 THEN <<recentHashes, elapsedRecent>>
    ELSE IF isMining THEN NoRecentHashrate
    ELSE <<0, 1>>


\* stats.GetSnapshot 118-130: RecentHashrate as a fraction <<hashes, seconds>>
RecentHashrate(isMining) ==
    IF ~isMining THEN <<0, 1>>
    ELSE IF elapsedRecent > 5 THEN <<recentHashes, elapsedRecent>>
    ELSE NoRecentHashrate

\* stats.GetSnapshot 138-146: the pool fields of the snapshot
SnapshotPoolUsername == lastPoolUsername
SnapshotSecondsOld ==
    IF lastPoolUsername = EmptyString /\ lastPoolUpdateTime = 0
    THEN NeverFetchedSeconds
    ELSE now - lastPoolUpdateTime

\* stats.RefreshPoolStats(username) 150-246, when both requests succeed
RefreshPoolStats(username) ==
    /\ lastPoolUsername' = username
    /\ lastPoolUpdateTime' = now

NoStatsCall == UNCHANGED <<timeVars, hashVars, hashedSinceReset>>

(***************************************************************************)
(* Stratum client (client.go).                                             *)
(***************************************************************************)
FreeConns == {c \in ConnIds : conns[c].st = "unused"}

\* Client.Close()
Close ==
    /\ cl' = ClosedClient(cl)
    /\ conns' = ClosedConns(cl, conns)

\* Client.Connect(...): closes the previous connection, dials, logs in.
\* outcome: "ok" (login accepted, dispatchJobs started with the first job),
\* "refused" (the server answered with an error), "transport" (dial, write
\* or read failed). conns holds the connections on which a login was
\* accepted; Connect does not close the socket of a dial whose login failed
\* (171-212 return with cl.alive false), and such a socket is not in conns.
Connect(outcome, user, firstJob) ==
    IF outcome = "ok"
    THEN LET c == CHOOSE x \in FreeConns : \A y \in FreeConns : x <= y
         IN /\ cl' = [alive |-> TRUE, conn |-> c]
            /\ conns' = [ClosedConns(cl, conns) EXCEPT
                            ![c] = [st |-> "first", job |-> firstJob,
                                    open |-> TRUE, user |-> user]]
    ELSE /\ cl' = [alive |-> FALSE, conn |-> 0]
         /\ conns' = ClosedConns(cl, conns)

ConnectOutcomes == {"ok", "refused", "transport"}

\* the users the pool knows no wallet of: it accepts their login with a
\* warning (loginResponse.Warning)
NoWalletUsers == {UserB}
\* the code of the error object of a refused login (loginResponse.Error);
\* the pool's error codes are not zero
PoolErrorCode == -1

\* what Connect returns besides the job channel: err (is it non-nil), code
\* and message
ConnectReturn(outcome, user) ==
    IF outcome = "transport"
    THEN [err |-> TRUE, code |-> 0, message |-> ""]
    ELSE IF outcome = "refused"
    THEN [err |-> TRUE, code |-> PoolErrorCode, message |-> "refused"]
    ELSE IF user \in NoWalletUsers
    THEN [err |-> FALSE, code |-> NO_WALLET_SPECIFIED_WARNING_CODE,
          message |-> "no wallet"]
    ELSE [err |-> FALSE, code |-> 0, message |-> ""]
\* what the pool can answer: it accepts a login only while it has a
\* connection to give
CanConnect(outcome) == outcome = "ok" => FreeConns # {}

\* loginName: wallet is empty in every login of the model
LoginName(args) == args

(***************************************************************************)
(* The native engine (rxlib), behind rx.SeedRX, rx.AddThread,              *)
(* rx.RemoveThread and rx.HashUntil.                                       *)
(***************************************************************************)
\* rx.SeedRX(newSeed, initThreads): false on an unrecoverable error, and
\* the engine then holds no usable dataset for newSeed
SeedRX(newSeed, ok) ==
    rx' = [rx EXCEPT !.seed = IF ok THEN newSeed ELSE @, !.ok = ok]

\* rx.AddThread(): the new thread count, or < 0
AddThreadResult == IF rx.threads < MaxThreads THEN rx.threads + 1 ELSE -1
\* rx.RemoveThread(): the new thread count, or < 0
RemoveThreadResult == IF rx.threads > 1 THEN rx.threads - 1 ELSE -1

(***************************************************************************)
(* MiningLoop (minerlib.go 330-417), one action per step of loop l.        *)
(***************************************************************************)
\* a loop that goes on without calling stopWorkers()
SkipStopWorkers(rec, ret) == [rec EXCEPT !.pc = ret]

\* the loop is about to call stopWorkers() and continues at ret
CallStopWorkers(rec, ret) == [rec EXCEPT !.pc = "sw_flag", !.ret = ret]

\* continue: back at the select. rec.poke is the poke of the iteration that
\* ends here, 0 when the select took another case
AtSelect(l, rec) == loops' = [loops EXCEPT ![l] = [rec EXCEPT !.pc = "select"]]

\* stopWorkers(), first statement: atomic.StoreUint32(&stopper, 1)
stopWorkersFlag(l) ==
    /\ loops[l].pc = "sw_flag"
    /\ stopper' = 1
    /\ loops' = [loops EXCEPT ![l].pc = "sw_join"]
    /\ UNCHANGED <<configVars, loginVars, flagVars, clientVars, pokeVars,
                   workers, submitters, timeVars, counterVars,
                   hashVars, rx, clockVars, crashed, evalOut,
                   hashedSinceReset, budget, idleReport, poolVars, chatVars, lockVars>>

\* stopWorkers() that does not wait for the workers
stopWorkersNoWait(l) ==
    /\ loops[l].pc = "sw_join"
    /\ loops' = [loops EXCEPT ![l].pc = "sw_mark"]
    /\ UNCHANGED <<configVars, loginVars, flagVars, clientVars, pokeVars,
                   workerVars, timeVars, counterVars, hashVars, rx,
                   clockVars, crashed, evalOut, hashedSinceReset,
                   budget, idleReport, poolVars, chatVars, lockVars>>

\* stopWorkers(), second statement: wg.Wait()
stopWorkersWait(l) ==
    /\ loops[l].pc = "sw_join"
    /\ workers = {}
    /\ loops' = [loops EXCEPT ![l].pc = "sw_mark"]
    /\ UNCHANGED <<configVars, loginVars, flagVars, clientVars, pokeVars,
                   workerVars, timeVars, counterVars, hashVars, rx,
                   clockVars, crashed, evalOut, hashedSinceReset,
                   budget, idleReport, poolVars, chatVars, lockVars>>

\* a stopWorkers() that returns after wg.Wait()
stopWorkersNoMark(l) ==
    /\ loops[l].pc = "sw_mark"
    /\ NoStatsCall
    /\ loops' = [loops EXCEPT ![l].pc = loops[l].ret]
    /\ UNCHANGED <<configVars, loginVars, flagVars, clientVars, pokeVars,
                   workerVars, counterVars, rx, clockVars, crashed,
                   evalOut, budget, idleReport, poolVars, chatVars, lockVars>>

\* stopWorkers(), third statement: stats.RecentStatsNowAccurate(); return
stopWorkersMark(l) ==
    /\ loops[l].pc = "sw_mark"
    /\ RecentStatsNowAccurate
    /\ loops' = [loops EXCEPT ![l].pc = loops[l].ret]
    /\ UNCHANGED <<configVars, loginVars, flagVars, clientVars, pokeVars,
                   workerVars, counterVars, rx, clockVars, crashed,
                   evalOut, budget, idleReport, poolVars, chatVars, lockVars>>

\* a loop that starts with the screen taken as not idle
MiningLoopInitScreen(l) ==
    /\ loops[l].pc = "init"
    /\ ResetRecent
    /\ screenIdle' = FALSE
    /\ AtSelect(l, [loops[l] EXCEPT !.lastActivityState = NoActivityYet,
                                    !.job = NoJob,
                                    !.sleepSec = InitialSleepSec])
    /\ UNCHANGED <<configVars, loginVars, batteryPower, miningOverride,
                   clientVars, pokeVars, workerVars, counterVars, rx,
                   clockVars, crashed, evalOut, budget, idleReport,
                   poolVars, chatVars, lockVars>>

\* 334-339: after the first stopWorkers(): stats.ResetRecent(), locals
MiningLoopInit(l) ==
    /\ loops[l].pc = "init"
    /\ ResetRecent
    /\ AtSelect(l, [loops[l] EXCEPT !.lastActivityState = NoActivityYet,
                                    !.job = NoJob,
                                    !.sleepSec = InitialSleepSec])
    /\ UNCHANGED <<configVars, loginVars, flagVars, clientVars, pokeVars,
                   workerVars, counterVars, rx, clockVars, crashed,
                   evalOut, budget, idleReport, poolVars, chatVars, lockVars>>

\* 342-347: case poke := <-pokeChannel
SelectPoke(l) ==
    /\ loops[l].pc = "select"
    /\ pokeChannel # <<>>
    /\ LET poke == Head(pokeChannel)
       IN /\ pokeChannel' = Tail(pokeChannel)
          /\ loops' = [loops EXCEPT ![l] =
                IF poke = EXIT_LOOP_POKE
                THEN CallStopWorkers([loops[l] EXCEPT !.poke = poke], "exit")
                ELSE [loops[l] EXCEPT !.pc = "poke", !.poke = poke]]
    /\ UNCHANGED <<configVars, loginVars, flagVars, clientVars, pokeSenders,
                   workerVars, timeVars, counterVars, hashVars, rx,
                   clockVars, crashed, evalOut, hashedSinceReset,
                   budget, idleReport, poolVars, chatVars, lockVars>>

\* a loop that goes on to line 384 after a poke whether it has a job or not
AfterPokeAnyJob(l, rec) ==
    loops' = [loops EXCEPT ![l] = CallStopWorkers(rec, "seed")]

\* 349-352 after handlePoke: without a job the loop goes back to the
\* select, with one it goes on to line 384
AfterPoke(l, rec) ==
    IF rec.job = NoJob
    THEN AtSelect(l, rec)
    ELSE loops' = [loops EXCEPT ![l] = CallStopWorkers(rec, "seed")]

\* handlePoke: case STATE_CHANGE_POKE / case UPDATE_STATS_POKE, and the
\* stopWorkers() call of the two thread-count cases
handlePoke(l) ==
    /\ loops[l].pc = "poke"
    /\ LET poke == loops[l].poke
       IN CASE poke = STATE_CHANGE_POKE ->
                 /\ ResetRecent
                 /\ AfterPoke(l, loops[l])
            [] poke = UPDATE_STATS_POKE ->
                 /\ NoStatsCall
                 /\ AfterPoke(l, loops[l])
            [] poke = INCREASE_THREADS_POKE ->
                 /\ NoStatsCall
                 /\ loops' = [loops EXCEPT ![l] = CallStopWorkers(loops[l], "inc")]
            [] poke = DECREASE_THREADS_POKE ->
                 /\ NoStatsCall
                 /\ loops' = [loops EXCEPT ![l] = CallStopWorkers(loops[l], "dec")]
    /\ UNCHANGED <<configVars, loginVars, flagVars, clientVars, pokeVars,
                   workerVars, counterVars, rx, clockVars, crashed,
                   evalOut, budget, idleReport, poolVars, chatVars, lockVars>>

\* handlePoke 431-440 / 446-455: the engine call under configMutex
handlePokeThreads(l) ==
    /\ loops[l].pc \in {"inc", "dec"}
    /\ LET t == IF loops[l].pc = "inc" THEN AddThreadResult
                ELSE RemoveThreadResult
       IN IF t < 0
             THEN /\ UNCHANGED <<threads, rx>>
                  /\ AfterPoke(l, loops[l])
             ELSE /\ threads' = t
                  /\ rx' = [rx EXCEPT !.threads = t]
                  /\ loops' = [loops EXCEPT ![l].pc = "threads_reset"]
    /\ UNCHANGED <<plArgs, lastSeed, excludeHourStart, excludeHourEnd,
                   loginVars, flagVars, clientVars, pokeVars,
                   workerVars, timeVars, counterVars, hashVars,
                   clockVars, crashed, evalOut, hashedSinceReset,
                   budget, idleReport, poolVars, chatVars, lockVars>>

\* handlePoke 441 / 456: stats.ResetRecent() after a thread-count change
handlePokeReset(l) ==
    /\ loops[l].pc = "threads_reset"
    /\ ResetRecent
    /\ AfterPoke(l, loops[l])
    /\ UNCHANGED <<configVars, loginVars, flagVars, clientVars, pokeVars,
                   workerVars, counterVars, rx, clockVars, crashed,
                   evalOut, budget, idleReport, poolVars, chatVars, lockVars>>

\* 354-378: case job = <-jobChan, a job delivered by dispatchJobs
SelectJob(l) ==
    /\ loops[l].pc = "select"
    /\ LET c == loops[l].jobChan
       IN /\ conns[c].st \in {"first", "holding"}
          /\ conns' = [conns EXCEPT ![c].st = "reading", ![c].job = NoJob]
          /\ loops' = [loops EXCEPT ![l] =
                CallStopWorkers([loops[l] EXCEPT !.job = conns[c].job,
                                                 !.poke = 0], "seed")]
    /\ UNCHANGED <<configVars, loginVars, flagVars, cl, pokeVars, workerVars,
                   timeVars, counterVars, hashVars, rx, clockVars,
                   crashed, evalOut, histVars, budget, poolVars, chatVars, lockVars>>

\* 354-356: case job = <-jobChan on the closed channel: job is now nil
SelectClosed(l) ==
    /\ loops[l].pc = "select"
    /\ conns[loops[l].jobChan].st = "closed"
    /\ loops' = [loops EXCEPT ![l].job = NoJob, ![l].pc = "closing",
                              ![l].poke = 0]
    /\ UNCHANGED <<configVars, loginVars, flagVars, clientVars, pokeVars,
                   workerVars, timeVars, counterVars, hashVars, rx,
                   clockVars, crashed, evalOut, histVars, budget,
                   poolVars, chatVars, lockVars>>

\* 380-381: case <-time.After(30 * time.Second): nothing else was ready
SelectTimer(l) ==
    /\ loops[l].pc = "select"
    /\ pokeChannel = <<>>
    /\ conns[loops[l].jobChan].st = "reading"
    /\ loops' = [loops EXCEPT ![l] =
          CallStopWorkers([loops[l] EXCEPT !.poke = 0], "seed")]
    /\ UNCHANGED <<configVars, loginVars, flagVars, clientVars, pokeVars,
                   workerVars, timeVars, counterVars, hashVars, rx,
                   clockVars, crashed, evalOut, histVars, budget,
                   poolVars, chatVars, lockVars>>

\* 357: cl.Close()
MiningLoopClose(l) ==
    /\ loops[l].pc = "closing"
    /\ Close
    /\ loops' = [loops EXCEPT ![l].pc = "reconnect"]
    /\ UNCHANGED <<configVars, loginVars, flagVars, pokeVars, workerVars,
                   timeVars, counterVars, hashVars, rx, clockVars,
                   crashed, evalOut, hashedSinceReset, budget,
                   idleReport, poolVars, chatVars, lockVars>>

\* reconnectClient() (300-327), one critical section of configMutex, and
\* the test of its result (358-359)
reconnectClient(l) ==
    /\ loops[l].pc = "reconnect"
    /\ IF plArgs = NoArgs
       THEN /\ loops' = [loops EXCEPT ![l].pc = "sleep"]
            /\ UNCHANGED <<clientVars>>
       ELSE \E outcome \in ConnectOutcomes, firstJob \in Jobs :
              /\ CanConnect(outcome)
              /\ Connect(outcome, LoginName(plArgs), firstJob)
              /\ loops' = [loops EXCEPT ![l] =
                    IF outcome = "ok"
                    THEN CallStopWorkers(
                            [loops[l] EXCEPT !.newChan = cl'.conn], "swap")
                    ELSE [loops[l] EXCEPT !.pc = "sleep"]]
    /\ UNCHANGED <<configVars, loginVars, flagVars, pokeVars, workerVars,
                   timeVars, counterVars, hashVars, rx, clockVars,
                   crashed, evalOut, hashedSinceReset, budget,
                   idleReport, poolVars, chatVars, lockVars>>

\* 360-363: time.Sleep(sleepSec); sleepSec += time.Second; continue.
\* The backoff is followed up to InitialSleepSec + MaxBackoff seconds.
MiningLoopSleep(l) ==
    /\ loops[l].pc = "sleep"
    /\ AtSelect(l, [loops[l] EXCEPT
          !.sleepSec = IF @ < InitialSleepSec + MaxBackoff THEN @ + 1 ELSE @])
    /\ UNCHANGED <<configVars, loginVars, flagVars, clientVars, pokeVars,
                   workerVars, timeVars, counterVars, hashVars, rx,
                   clockVars, crashed, evalOut, hashedSinceReset,
                   budget, idleReport, poolVars, chatVars, lockVars>>

\* a loop that falls through to line 384 after a successful reconnect
MiningLoopSwapNoContinue(l) ==
    /\ loops[l].pc = "swap"
    /\ ResetRecent
    /\ loops' = [loops EXCEPT ![l] =
          CallStopWorkers([loops[l] EXCEPT !.sleepSec = InitialSleepSec,
                                           !.jobChan = loops[l].newChan,
                                           !.newChan = 0], "seed")]
    /\ UNCHANGED <<configVars, loginVars, flagVars, clientVars, pokeVars,
                   workerVars, counterVars, rx, clockVars, crashed,
                   evalOut, budget, idleReport, poolVars, chatVars, lockVars>>

\* 366-370 after stopWorkers(): stats.ResetRecent(); jobChan = newChan
MiningLoopSwap(l) ==
    /\ loops[l].pc = "swap"
    /\ ResetRecent
    /\ AtSelect(l, [loops[l] EXCEPT !.sleepSec = InitialSleepSec,
                                    !.jobChan = loops[l].newChan,
                                    !.newChan = 0])
    /\ UNCHANGED <<configVars, loginVars, flagVars, clientVars, pokeVars,
                   workerVars, counterVars, rx, clockVars, crashed,
                   evalOut, budget, idleReport, poolVars, chatVars, lockVars>>

\* a seed step that installs the new seed and leaves the recent stats alone
MiningLoopSeedNoReset(l) ==
    /\ loops[l].pc = "seed"
    /\ loops[l].job # NoJob
    /\ NoStatsCall
    /\ LET d == DecodeString(loops[l].job.seed)
       IN IF d.err
          THEN /\ AtSelect(l, loops[l])
               /\ UNCHANGED <<lastSeed, rx>>
          ELSE /\ loops' = [loops EXCEPT ![l].pc = "eval"]
               /\ IF d.bytes # lastSeed
                  THEN /\ \E ok \in BOOLEAN : SeedRX(d.bytes, ok)
                       /\ lastSeed' = d.bytes
                  ELSE UNCHANGED <<lastSeed, rx>>
    /\ UNCHANGED <<plArgs, threads, excludeHourStart, excludeHourEnd,
                   loginVars, flagVars, clientVars, pokeVars,
                   workerVars, counterVars, clockVars, crashed,
                   evalOut, budget, idleReport, poolVars, chatVars, lockVars>>


\* 386-397 after stopWorkers(): decode job.SeedHash, reseed when it differs
\* from lastSeed. job == nil here is a nil dereference: the process dies.
MiningLoopSeed(l) ==
    /\ loops[l].pc = "seed"
    /\ IF loops[l].job = NoJob
       THEN /\ crashed' = TRUE
            /\ NoStatsCall
            /\ UNCHANGED <<lastSeed, rx, loops>>
       ELSE LET d == DecodeString(loops[l].job.seed)
            IN /\ UNCHANGED crashed
               /\ IF d.err
                  THEN /\ AtSelect(l, loops[l])
                       /\ NoStatsCall
                       /\ UNCHANGED <<lastSeed, rx>>
                  ELSE /\ loops' = [loops EXCEPT ![l].pc = "eval"]
                       /\ IF d.bytes # lastSeed
                          THEN /\ \E ok \in BOOLEAN : SeedRX(d.bytes, ok)
                               /\ lastSeed' = d.bytes
                               /\ ResetRecent
                          ELSE /\ NoStatsCall
                               /\ UNCHANGED <<lastSeed, rx>>
    /\ UNCHANGED <<plArgs, threads, excludeHourStart, excludeHourEnd,
                   loginVars, flagVars, clientVars, pokeVars,
                   workerVars, counterVars, clockVars, evalOut, budget,
                   idleReport, poolVars, chatVars, lockVars>>

\* 399-409: evaluate the activity, reset the recent window on a change of
\* sign, stay paused or go on to spawn
MiningLoopActivity(l) ==
    /\ loops[l].pc = "eval"
    /\ LET as == getMiningActivityState
           last == loops[l].lastActivityState
           rec == [loops[l] EXCEPT !.lastActivityState = as]
       IN /\ IF as # last /\ ((as < 0 /\ last > 0) \/ (as > 0 /\ last < 0))
             THEN ResetRecent
             ELSE NoStatsCall
          /\ IF as < 0
             THEN AtSelect(l, rec)
             ELSE /\ loops' = [loops EXCEPT ![l] = [rec EXCEPT !.pc = "spawn"]]
    /\ UNCHANGED <<configVars, loginVars, flagVars, clientVars, pokeVars,
                   workerVars, counterVars, rx, clockVars, crashed,
                   evalOut, budget, idleReport, poolVars, chatVars, lockVars>>

\* the workers "go goMine(*job, i)" starts for i in [0, n)
NewWorkers(job, n) ==
    {[thread |-> i, job |-> job, pend |-> 0] : i \in 0..(n - 1)}

\* 411-415: atomic.StoreUint32(&stopper, 0); spawn threads workers
MiningLoopSpawn(l) ==
    /\ loops[l].pc = "spawn"
    /\ stopper' = 0
    /\ workers' = workers \cup NewWorkers(loops[l].job, threads)
    /\ AtSelect(l, loops[l])
    /\ UNCHANGED <<configVars, loginVars, flagVars, clientVars, pokeVars,
                   submitters, timeVars, counterVars, hashVars, rx,
                   clockVars, crashed, evalOut, hashedSinceReset,
                   budget, idleReport, poolVars, chatVars, lockVars>>

\* a loop that returns without the deferred done <- true
MiningLoopExitNoSignal(l) ==
    /\ loops[l].pc = "exit"
    /\ loops' = [loops EXCEPT ![l].pc = "dead"]
    /\ UNCHANGED <<configVars, loginVars, flagVars, clientVars, pokeVars,
                   workerVars, timeVars, counterVars, hashVars, rx,
                   clockVars, crashed, evalOut, histVars, budget, poolVars, chatVars, lockVars>>


\* 343-346 after stopWorkers(): return; the deferred done <- true
MiningLoopExit(l) ==
    /\ loops[l].pc = "exit"
    /\ loops' = [loops EXCEPT ![l].pc = "dead"]
    /\ doneChans' = [doneChans EXCEPT ![l] = @ + 1]
    /\ UNCHANGED <<configVars, doneChanMutex, miningLoopDoneChan, callers,
                   flagVars, clientVars, pokeVars, workerVars,
                   timeVars, counterVars, hashVars, rx, clockVars,
                   crashed, evalOut, histVars, budget, poolVars, chatVars, lockVars>>

(***************************************************************************)
(* goMine (minerlib.go 603-657): a worker w of the pool, and the share     *)
(* submission goroutine it starts.                                         *)
(***************************************************************************)
\* rx.HashUntil at work: one more hash, not yet tallied; the engine looks
\* at the stop flag before each hash. A hash takes one second of the clock.
HashUntilHash(w) ==
    /\ w \in workers
    /\ stopper = 0
    /\ Spend("hashes")
    /\ workers' = (workers \ {w}) \cup {[w EXCEPT !.pend = @ + 1]}
    /\ hashedSinceReset' = hashedSinceReset + 1
    /\ now' = now + 1
    /\ UNCHANGED <<configVars, loginVars, flagVars, clientVars, pokeVars,
                   stopper, submitters, loops, timeVars, counterVars,
                   hashVars, rx, hour, crashed, evalOut, idleReport,
                   poolVars, chatVars, lockVars>>

\* 616-655: HashUntil returned res > 0, a share: tally res, start the
\* submission goroutine, hash on. The goroutine gets the nonce and the job
\* id; user records the login under which the share was found (history)
goMineShare(w) ==
    /\ w \in workers
    /\ w.pend > 0
    /\ Spend("shares")
    /\ TallyHashes(w.pend)
    /\ workers' = (workers \ {w}) \cup {[w EXCEPT !.pend = 0]}
    /\ submitters' = submitters \cup
          {[n |-> budget.shares, job |-> w.job, pc |-> "wait", conn |-> 0,
            user |-> plArgs]}
    /\ UNCHANGED <<configVars, loginVars, flagVars, clientVars, pokeVars,
                   stopper, loops, timeVars, counterVars, rx,
                   clockVars, crashed, evalOut, histVars, poolVars, chatVars, lockVars>>

\* 616-620 and the deferred wg.Done(): HashUntil returned res <= 0 because
\* the stop flag is set: tally -res, leave
goMineStop(w) ==
    /\ w \in workers
    /\ stopper = 1
    /\ TallyHashes(w.pend)
    /\ workers' = workers \ {w}
    /\ UNCHANGED <<configVars, loginVars, flagVars, clientVars, pokeVars,
                   stopper, submitters, loops, timeVars, counterVars,
                   rx, clockVars, crashed, evalOut, histVars, budget,
                   poolVars, chatVars, lockVars>>

\* 628-633: the submission goroutine waits until cl.IsAlive()
SubmitWaitAlive(t) ==
    /\ t \in submitters
    /\ t.pc = "wait"
    /\ IsAlive
    /\ submitters' = (submitters \ {t}) \cup {[t EXCEPT !.pc = "submit"]}
    /\ UNCHANGED <<configVars, loginVars, flagVars, clientVars, pokeVars,
                   workers, stopper, loops, timeVars, counterVars,
                   hashVars, rx, clockVars, crashed, evalOut, histVars,
                   budget, poolVars, chatVars, lockVars>>

\* a submitRequest that writes to the connection whatever cl.alive is
submitRequestNoCheck(alive, written) == written

\* Client.submitRequest 256-276, one critical section of cl.mutex: is the
\* request on the wire? Not if the client is not alive (257-260, before
\* any write) or the write failed
submitRequest(alive, written) == alive /\ written

\* 634 with Client.submitRequest: an error sends the goroutine to its
\* cl.Close(); else the request is written and the goroutine waits on the
\* response channel
SubmitWork(t) ==
    /\ t \in submitters
    /\ t.pc = "submit"
    /\ \E written \in BOOLEAN :
          submitters' = (submitters \ {t}) \cup
             {IF submitRequest(cl.alive, written)
              THEN [t EXCEPT !.pc = "await", !.conn = cl.conn]
              ELSE [t EXCEPT !.pc = "close"]}
    /\ UNCHANGED clientVars
    /\ UNCHANGED <<configVars, loginVars, flagVars, pokeVars, workers,
                   stopper, loops, timeVars, counterVars, hashVars, rx,
                   clockVars, crashed, evalOut, histVars, budget,
                   poolVars, chatVars, lockVars>>

\* 279-289 and 635-645: the response: nil from the closed channel (an
\* error: on to cl.Close()), a server error (share rejected), or success
SubmitResponse(t) ==
    /\ t \in submitters
    /\ t.pc = "await"
    /\ IF conns[t.conn].st = "closed"
       THEN /\ submitters' = (submitters \ {t}) \cup {[t EXCEPT !.pc = "close"]}
            /\ UNCHANGED counterVars
       ELSE /\ conns[t.conn].st = "reading"
            /\ conns[t.conn].open
            /\ submitters' = submitters \ {t}
            /\ \E accepted \in BOOLEAN :
                  IF accepted THEN ShareAccepted(t.job.diff)
                  ELSE ShareRejected
    /\ UNCHANGED clientVars
    /\ UNCHANGED <<configVars, loginVars, flagVars, pokeVars, workers,
                   stopper, loops, timeVars, hashVars, rx, clockVars,
                   crashed, evalOut, histVars, budget, poolVars, chatVars, lockVars>>

\* 636-638: cl.Close() after the error, on whatever connection the client
\* holds by now; return
SubmitClose(t) ==
    /\ t \in submitters
    /\ t.pc = "close"
    /\ submitters' = submitters \ {t}
    /\ Close
    /\ UNCHANGED <<configVars, loginVars, flagVars, pokeVars, workers,
                   stopper, loops, timeVars, counterVars, hashVars, rx,
                   clockVars, crashed, evalOut, histVars, budget, poolVars, chatVars, lockVars>>

(***************************************************************************)
(* dispatchJobs of connection c (client.go 341-371) and the pool.          *)
(***************************************************************************)
\* 348-369: a job line read from the pool; dispatchJobs now blocks on
\* jobChan <- response.Job
dispatchJobsRead(c) ==
    /\ conns[c].st = "reading"
    /\ conns[c].open
    /\ Spend("jobs")
    /\ \E j \in Jobs : conns' = [conns EXCEPT ![c].st = "holding", ![c].job = j]
    /\ UNCHANGED <<configVars, loginVars, flagVars, cl, pokeVars, workerVars,
                   loops, timeVars, counterVars, hashVars, rx,
                   clockVars, crashed, evalOut, histVars, poolVars, chatVars, lockVars>>

\* 342-345, 351-355: readJSON failed (the connection was closed here, or
\* the network broke it): both channels are closed; cl.alive is not touched
dispatchJobsReturn(c) ==
    /\ conns[c].st = "reading"
    /\ \/ /\ ~conns[c].open
          /\ UNCHANGED budget
       \/ /\ conns[c].open
          /\ Spend("drops")
    /\ conns' = [conns EXCEPT ![c].st = "closed"]
    /\ UNCHANGED <<configVars, loginVars, flagVars, cl, pokeVars, workerVars,
                   loops, timeVars, counterVars, hashVars, rx,
                   clockVars, crashed, evalOut, histVars, poolVars, chatVars, lockVars>>

(***************************************************************************)
(* PoolLogin (minerlib.go 168-237), called by caller p.                    *)
(***************************************************************************)
\* a caller enters PoolLogin(args)
PoolLoginCall(p, args) ==
    /\ callers[p].pc = "idle"
    /\ Spend("logins")
    /\ callers' = [callers EXCEPT
          ![p] = [NoCaller EXCEPT !.pc = "lock", !.args = args]]
    /\ UNCHANGED <<configVars, doneChanMutex, miningLoopDoneChan, doneChans,
                   flagVars, clientVars, pokeVars, workerVars, loops,
                   timeVars, counterVars, hashVars, rx, clockVars,
                   crashed, evalOut, histVars, poolVars, chatVars, lockVars>>

\* 170-172: doneChanMutex.Lock(); is a loop running?
PoolLoginLock(p) ==
    /\ callers[p].pc = "lock"
    /\ doneChanMutex = 0
    /\ doneChanMutex' = p
    /\ callers' = [callers EXCEPT ![p].pc =
          IF miningLoopDoneChan # 0 THEN "exit" ELSE "config"]
    /\ UNCHANGED <<configVars, miningLoopDoneChan, doneChans, flagVars,
                   clientVars, pokeVars, workerVars, loops, timeVars,
                   counterVars, hashVars, rx, clockVars, crashed,
                   evalOut, histVars, budget, poolVars, chatVars, lockVars>>

\* 175: pokeJobDispatcher(EXIT_LOOP_POKE), blocking while the channel is full
PoolLoginPokeExit(p) ==
    /\ callers[p].pc = "exit"
    /\ Len(pokeChannel) < PokeChannelCap
    /\ pokeChannel' = Append(pokeChannel, EXIT_LOOP_POKE)
    /\ callers' = [callers EXCEPT ![p].pc = "wait"]
    /\ UNCHANGED <<configVars, doneChanMutex, miningLoopDoneChan, doneChans,
                   flagVars, clientVars, pokeSenders, workerVars,
                   loops, timeVars, counterVars, hashVars, rx,
                   clockVars, crashed, evalOut, histVars, budget,
                   poolVars, chatVars, lockVars>>

\* PoolLogin that does not wait for the done signal of the running loop
PoolLoginNoAwait(p) ==
    /\ callers[p].pc = "wait"
    /\ miningLoopDoneChan' = 0
    /\ callers' = [callers EXCEPT ![p].pc = "config"]
    /\ UNCHANGED <<configVars, doneChanMutex, doneChans, flagVars, clientVars,
                   pokeVars, workerVars, loops, timeVars, counterVars,
                   hashVars, rx, clockVars, crashed, evalOut, histVars,
                   budget, poolVars, chatVars, lockVars>>

\* 177-178: <-miningLoopDoneChan; miningLoopDoneChan = nil
PoolLoginAwaitDone(p) ==
    /\ callers[p].pc = "wait"
    /\ doneChans[miningLoopDoneChan] > 0
    /\ doneChans' = [doneChans EXCEPT ![miningLoopDoneChan] = @ - 1]
    /\ miningLoopDoneChan' = 0
    /\ callers' = [callers EXCEPT ![p].pc = "config"]
    /\ UNCHANGED <<configVars, doneChanMutex, flagVars, clientVars, pokeVars,
                   workerVars, loops, timeVars, counterVars, hashVars,
                   rx, clockVars, crashed, evalOut, histVars, budget,
                   poolVars, chatVars, lockVars>>

\* the loop started by "go MiningLoop(jc, miningLoopDoneChan)": it is about
\* to run its first stopWorkers()
NewLoop(jc) == CallStopWorkers([NoLoop EXCEPT !.jobChan = jc], "init")
UnbornLoops == {l \in LoopIds : loops[l].pc = "unborn"}

\* a PoolLogin that takes every nonzero code of Connect for a refusal
PoolLoginResponseAnyCode(dot, ret) ==
    IF dot THEN [Code |-> 2, MessageID |-> 0, Message |-> "no '.'"]
    ELSE IF ret.code # 0
    THEN [Code |-> 2, MessageID |-> 0, Message |-> ret.message]
    ELSE IF ret.err
    THEN [Code |-> -1, MessageID |-> 0, Message |-> "err.Error()"]
    ELSE [Code |-> 1, MessageID |-> 0, Message |-> ""]

\* 185-231: the PoolLoginResponse, given whether the username has a '.'
\* and, if it has none, what Connect returned
PoolLoginResponse(dot, ret) ==
    IF dot THEN [Code |-> 2, MessageID |-> 0, Message |-> "no '.'"]
    ELSE IF ret.err
    THEN IF ret.code # 0
         THEN [Code |-> 2, MessageID |-> 0, Message |-> ret.message]
         ELSE [Code |-> -1, MessageID |-> 0, Message |-> "err.Error()"]
    ELSE IF ret.code # 0
    THEN [Code |-> 1, MessageID |-> ret.code, Message |-> ret.message]
    ELSE [Code |-> 1, MessageID |-> 0, Message |-> ""]

\* the caller returns from PoolLogin with response r
PoolLoginReturn(p, ret, r) ==
    callers' = [callers EXCEPT ![p].pc = "idle",
                               ![p].err = ret.err, ![p].ccode = ret.code,
                               ![p].code = r.Code,
                               ![p].MessageID = r.MessageID,
                               ![p].Message = r.Message]

NoConnectReturn == [err |-> FALSE, code |-> 0, message |-> ""]

\* 182-236: the critical section of configMutex, and the two deferred
\* unlocks
PoolLoginConnect(p) ==
    /\ callers[p].pc = "config"
    /\ doneChanMutex' = 0
    /\ LET args == callers[p].args
       IN IF HasDot(args)
          THEN /\ plArgs' = NoArgs
               /\ PoolLoginReturn(p, NoConnectReturn,
                                  PoolLoginResponse(TRUE, NoConnectReturn))
               /\ UNCHANGED <<clientVars, miningLoopDoneChan, loops>>
          ELSE \E outcome \in ConnectOutcomes, firstJob \in Jobs :
                 LET ret == ConnectReturn(outcome, LoginName(args))
                     r == PoolLoginResponse(FALSE, ret)
                 IN /\ CanConnect(outcome)
                    /\ Connect(outcome, LoginName(args), firstJob)
                    /\ PoolLoginReturn(p, ret, r)
                    /\ IF r.Code = 1
                       THEN LET l == CHOOSE x \in UnbornLoops :
                                        \A y \in UnbornLoops : x <= y
                            IN /\ plArgs' = args
                               /\ miningLoopDoneChan' = l
                               /\ loops' = [loops EXCEPT
                                               ![l] = NewLoop(cl'.conn)]
                       ELSE /\ plArgs' = NoArgs
                            /\ UNCHANGED <<miningLoopDoneChan, loops>>
    /\ UNCHANGED <<threads, lastSeed, excludeHourStart, excludeHourEnd,
                   doneChans, flagVars, pokeVars, workerVars, timeVars,
                   counterVars, hashVars, rx, clockVars, crashed,
                   evalOut, hashedSinceReset, budget, idleReport,
                   poolVars, chatVars, lockVars>>

(***************************************************************************)
(* The setters of the public API (minerlib.go 477-556, 659-715), each one  *)
(* critical section of configMutex, and pokeJobDispatcher.                 *)
(***************************************************************************)
\* go pokeJobDispatcher(poke), when somebody is logged in
GoPoke(poke) ==
    IF plArgs # NoArgs
    THEN pokeSenders' = [pokeSenders EXCEPT ![poke] = @ + 1]
    ELSE UNCHANGED pokeSenders

\* the bound on the calls of the setters
MayCall == Spend("calls")

\* pokeJobDispatcher(pokeMsg) in its own goroutine: pokeChannel <- pokeMsg
pokeJobDispatcher(poke) ==
    /\ pokeSenders[poke] > 0
    /\ Len(pokeChannel) < PokeChannelCap
    /\ pokeChannel' = Append(pokeChannel, poke)
    /\ pokeSenders' = [pokeSenders EXCEPT ![poke] = @ - 1]
    /\ UNCHANGED <<configVars, loginVars, flagVars, clientVars, workerVars,
                   loops, timeVars, counterVars, hashVars, rx,
                   clockVars, crashed, evalOut, histVars, budget,
                   poolVars, chatVars, lockVars>>

\* a ReportIdleScreenState that pokes the loop whatever the stored flag is
ReportIdleAlways(isIdle) ==
    /\ MayCall
    /\ screenIdle' = isIdle
    /\ idleReport' = (~isIdle /\ getMiningActivityState = MINING_ACTIVE)
    /\ GoPoke(STATE_CHANGE_POKE)
    /\ UNCHANGED <<configVars, loginVars, batteryPower, miningOverride,
                   clientVars, pokeChannel, workerVars, loops,
                   timeVars, counterVars, hashVars, rx, clockVars,
                   crashed, evalOut, hashedSinceReset, poolVars, chatVars, lockVars>>

\* ReportIdleScreenState(isIdle) (691-702): returns at once when the
\* stored flag is isIdle already
ReportIdleScreenState(isIdle) ==
    /\ screenIdle # isIdle
    /\ MayCall
    /\ screenIdle' = isIdle
    /\ idleReport' = (~isIdle /\ getMiningActivityState = MINING_ACTIVE)
    /\ GoPoke(STATE_CHANGE_POKE)
    /\ UNCHANGED <<configVars, loginVars, batteryPower, miningOverride,
                   clientVars, pokeChannel, workerVars, loops,
                   timeVars, counterVars, hashVars, rx, clockVars,
                   crashed, evalOut, hashedSinceReset, poolVars, chatVars, lockVars>>

ReportPowerState(battery) ==
    /\ batteryPower # battery
    /\ MayCall
    /\ batteryPower' = battery
    /\ GoPoke(STATE_CHANGE_POKE)
    /\ UNCHANGED <<configVars, loginVars, screenIdle, miningOverride,
                   clientVars, pokeChannel, workerVars, loops,
                   timeVars, counterVars, hashVars, rx, clockVars,
                   crashed, evalOut, hashedSinceReset, idleReport,
                   poolVars, chatVars, lockVars>>

OverrideMiningActivityState(mine) ==
    LET newState == IF mine THEN OVERRIDE_MINE ELSE OVERRIDE_PAUSE
    IN /\ miningOverride # newState
       /\ MayCall
       /\ miningOverride' = newState
       /\ GoPoke(STATE_CHANGE_POKE)
          /\ UNCHANGED <<configVars, loginVars, batteryPower, screenIdle,
                         clientVars, pokeChannel, workerVars,
                         loops, timeVars, counterVars, hashVars,
                         rx, clockVars, crashed, evalOut,
                         hashedSinceReset, idleReport, poolVars, chatVars, lockVars>>

RemoveMiningActivityOverride ==
    /\ miningOverride # 0
    /\ MayCall
    /\ miningOverride' = 0
    /\ GoPoke(STATE_CHANGE_POKE)
    /\ UNCHANGED <<configVars, loginVars, batteryPower, screenIdle,
                   clientVars, pokeChannel, workerVars, loops,
                   timeVars, counterVars, hashVars, rx, clockVars,
                   crashed, evalOut, hashedSinceReset, idleReport,
                   poolVars, chatVars, lockVars>>

\* RequestRecentStatsUpdate(): nothing when nobody is logged in
RequestRecentStatsUpdate ==
    /\ plArgs # NoArgs
    /\ MayCall
    /\ GoPoke(UPDATE_STATS_POKE)
    /\ UNCHANGED <<configVars, loginVars, flagVars, clientVars, pokeChannel,
                   workerVars, loops, timeVars, counterVars, hashVars,
                   rx, clockVars, crashed, evalOut, histVars,
                   poolVars, chatVars, lockVars>>

\* IncreaseThreads() / DecreaseThreads(): a poke when somebody is logged
\* in; else the engine call here. When that call fails configMutex is
\* unlocked twice (534 and the deferred 526): a fatal error of the runtime.
ChangeThreads(poke, t) ==
    /\ MayCall
    /\ IF plArgs # NoArgs
       THEN /\ GoPoke(poke)
            /\ UNCHANGED <<threads, rx, crashed>>
       ELSE /\ UNCHANGED pokeSenders
            /\ IF t < 0
               THEN /\ crashed' = TRUE
                    /\ UNCHANGED <<threads, rx>>
               ELSE /\ threads' = t
                    /\ rx' = [rx EXCEPT !.threads = t]
                    /\ UNCHANGED crashed
    /\ UNCHANGED <<plArgs, lastSeed, excludeHourStart, excludeHourEnd,
                   loginVars, flagVars, clientVars, pokeChannel,
                   workerVars, loops, timeVars, counterVars, hashVars,
                   clockVars, evalOut, hashedSinceReset, idleReport,
                   poolVars, chatVars, lockVars>>

IncreaseThreads == ChangeThreads(INCREASE_THREADS_POKE, AddThreadResult)
DecreaseThreads == ChangeThreads(DECREASE_THREADS_POKE, RemoveThreadResult)

(***************************************************************************)
(* The specification.                                                      *)
(***************************************************************************)
\* A loop between two blocking operations (the select, wg.Wait with live
\* workers, time.Sleep): the statements in between run without another
\* goroutine in between; what they touch is the loop's own or is accessed
\* under a lock, so every interleaving is equivalent to one of these.
Running(l) ==
    /\ loops[l].pc \notin {"unborn", "dead", "select", "sleep"}
    /\ ~(loops[l].pc = "sw_join" /\ workers # {})
AtRest == ~crashed /\ \A l \in LoopIds : ~Running(l)

\* the loop between its blocking operations
LoopRun ==
    \/ ~crashed /\ \E l \in LoopIds : stopWorkersFlag(l)
    \/ ~crashed /\ \E l \in LoopIds : stopWorkersWait(l)
    \/ ~crashed /\ \E l \in LoopIds : stopWorkersMark(l)
    \/ ~crashed /\ \E l \in LoopIds : MiningLoopInit(l)
    \/ ~crashed /\ \E l \in LoopIds : handlePoke(l)
    \/ ~crashed /\ \E l \in LoopIds : MiningLoopSeed(l)
    \/ ~crashed /\ \E l \in LoopIds : MiningLoopActivity(l)
    \/ ~crashed /\ \E l \in LoopIds : MiningLoopSpawn(l)

\* the select of the loop, when the connection holds
LoopSelect ==
    \/ AtRest /\ \E l \in LoopIds : SelectPoke(l)
    \/ AtRest /\ \E l \in LoopIds : SelectJob(l)
    \/ AtRest /\ \E l \in LoopIds : SelectTimer(l)

\* thread-count pokes
LoopThreads ==
    \/ ~crashed /\ \E l \in LoopIds : handlePokeThreads(l)
    \/ ~crashed /\ \E l \in LoopIds : handlePokeReset(l)

\* the closed job channel: close, reconnect, back off or swap
LoopReconnect ==
    \/ AtRest /\ \E l \in LoopIds : SelectClosed(l)
    \/ ~crashed /\ \E l \in LoopIds : MiningLoopClose(l)
    \/ ~crashed /\ \E l \in LoopIds : reconnectClient(l)
    \/ AtRest /\ \E l \in LoopIds : MiningLoopSleep(l)
    \/ ~crashed /\ \E l \in LoopIds : MiningLoopSwap(l)

\* PoolLogin with no loop running
Login(users) ==
    \/ AtRest /\ \E p \in Callers, u \in users : PoolLoginCall(p, u)
    \/ AtRest /\ \E p \in Callers : PoolLoginLock(p)
    \/ AtRest /\ \E p \in Callers : PoolLoginConnect(p)

\* PoolLogin replacing a running loop, and the loop's exit
Relogin ==
    \/ AtRest /\ \E p \in Callers : PoolLoginPokeExit(p)
    \/ AtRest /\ \E p \in Callers : PoolLoginAwaitDone(p)
    \/ ~crashed /\ \E l \in LoopIds : MiningLoopExit(l)

Stopping == AtRest /\ \E w \in workers : goMineStop(w)
Hashing == AtRest /\ \E w \in workers : HashUntilHash(w)
Sharing ==
    \/ AtRest /\ \E w \in workers : goMineShare(w)
    \/ AtRest /\ \E t \in submitters : SubmitWaitAlive(t)
    \/ AtRest /\ \E t \in submitters : SubmitWork(t)
    \/ AtRest /\ \E t \in submitters : SubmitResponse(t)
    \/ AtRest /\ \E t \in submitters : SubmitClose(t)

PoolJobs == AtRest /\ \E c \in ConnIds : dispatchJobsRead(c)
PoolCloses == AtRest /\ \E c \in ConnIds : dispatchJobsReturn(c)
Poking == AtRest /\ \E poke \in Pokes : pokeJobDispatcher(poke)

(***************************************************************************)
(* Chat queues (chat.go). Every function holds the package mutex from its  *)
(* first to its last statement, so each call is one step.                  *)
(***************************************************************************)
\* what the chat functions leave alone
minerVars == <<configVars, flagVars, loginVars, clientVars, pokeVars,
               workerVars, loops, counterVars, hashVars, timeVars, rx,
               clockVars, crashed, evalOut, budget, histVars, poolVars,
               lockVars>>

\* a ^ b on non-negative integers
RECURSIVE Xor(_, _)
Xor(a, b) ==
    IF a = 0 THEN b
    ELSE IF b = 0 THEN a
    ELSE (((a % 2) + (b % 2)) % 2) + 2 * Xor(a \div 2, b \div 2)

\* an id made of the salt alone
ChatIdSaltOnly(index, salt) == salt

\* int64(index) ^ randID (46, 61, 80)
ChatId(index, salt) == Xor(index, salt)

\* SendChat(chat) (42-47)
SendChat(chat) ==
    /\ Len(chatQueue) < MaxChats
    /\ chatQueue' = Append(chatQueue, chat)
    /\ LET id == ChatId(Len(chatQueue') - 1, randID)
       IN /\ chatOut' = [NoChatCall EXCEPT !.fn = "SendChat", !.id = id]
          /\ issuedIds' = Append(issuedIds, id)
    /\ UNCHANGED <<chatToSendIndex, receivedQueue, chatReceivedIndex,
                   nextToken, randID, fetches, appended>>
    /\ UNCHANGED minerVars

\* a loop that takes chats as long as the difficulty pays for them
MoreChatsNoShareMax(diff, n) == diff >= HASHES_PER_CHAT

\* the loop condition of GetChatsToSend but for the end of the queue (59)
MoreChats(diff, n) == diff >= HASHES_PER_CHAT /\ n < MAX_CHATS_PER_SHARE

\* the loop of GetChatsToSend (59-66): r after it, chatToSendIndex being
\* index and the difficulty left diff
RECURSIVE GetChatsToSendLoop(_, _, _)
GetChatsToSendLoop(diff, index, r) ==
    IF MoreChats(diff, Len(r)) /\ index < Len(chatQueue)
    THEN GetChatsToSendLoop(diff - HASHES_PER_CHAT, index + 1,
                            Append(r, [ID |-> ChatId(index, randID),
                                       Message |-> chatQueue[index + 1]]))
    ELSE r

\* GetChatsToSend(diff) (52-69): nil when every queued chat was handed out
GetChatsToSend(diff) ==
    /\ LET isNil == chatToSendIndex = Len(chatQueue)
           r == IF isNil THEN <<>>
                ELSE GetChatsToSendLoop(diff, chatToSendIndex, <<>>)
       IN /\ chatOut' = [NoChatCall EXCEPT !.fn = "GetChatsToSend",
                                           !.diff = diff, !.r = r,
                                           !.isNil = isNil]
          /\ chatToSendIndex' = chatToSendIndex + Len(r)
    /\ UNCHANGED <<chatQueue, receivedQueue, chatReceivedIndex, nextToken,
                   randID, fetches, issuedIds, appended>>
    /\ UNCHANGED minerVars

\* ChatSent(id) (77-83)
ChatSent(id) ==
    /\ chatOut' = [NoChatCall EXCEPT !.fn = "ChatSent", !.id = id]
    /\ chatToSendIndex' = IF id = ChatId(chatToSendIndex, randID)
                          THEN chatToSendIndex + 1
                          ELSE chatToSendIndex
    /\ UNCHANGED <<chatQueue, receivedQueue, chatReceivedIndex, nextToken,
                   randID, fetches, issuedIds, appended>>
    /\ UNCHANGED minerVars

\* HasChatsToSend() (71-75)
HasChatsToSend ==
    /\ chatOut' = [NoChatCall EXCEPT !.fn = "HasChatsToSend",
                                     !.has = chatToSendIndex < Len(chatQueue)]
    /\ UNCHANGED <<chatQueue, chatToSendIndex, receivedQueue,
                   chatReceivedIndex, nextToken, randID, fetches, issuedIds,
                   appended>>
    /\ UNCHANGED minerVars

\* the server advances its token monotonically: the tokens it may answer a
\* fetch made with tokenSent
ServerNextTokens(tokenSent) == {t \in Tokens : t >= tokenSent}

\* the lists of at most n chats
ChatLists(n) == UNION {[1..k -> ChatResults] : k \in 0..n}

\* the caller of ChatsReceived reads NextToken() (121-125) and sends a
\* fetch with it
NextTokenFetch ==
    /\ Len(fetches) < MaxFetches
    /\ fetches' = Append(fetches, [tokenSent |-> nextToken, st |-> "sent"])
    /\ chatOut' = [NoChatCall EXCEPT !.fn = "NextToken", !.id = nextToken]
    /\ UNCHANGED <<chatQueue, chatToSendIndex, receivedQueue,
                   chatReceivedIndex, nextToken, randID, issuedIds, appended>>
    /\ UNCHANGED minerVars

\* a ChatsReceived that appends whatever the token of the fetch
TokenAny(token, tokenSent) == TRUE

\* nextToken == tokenSent (94)
TokenCurrent(token, tokenSent) == token = tokenSent

\* ChatsReceived(cr, tokenSent) (88-103) with the response to fetch n
ChatsReceived(n, cr) ==
    /\ fetches[n].st = "sent"
    /\ fetches' = [fetches EXCEPT ![n].st = "done"]
    /\ LET tokenSent == fetches[n].tokenSent
       IN /\ chatOut' = [NoChatCall EXCEPT !.fn = "ChatsReceived", !.cr = cr,
                                           !.tokenSent = tokenSent]
          /\ IF \/ Len(cr.Chats) = 0 /\ cr.NextToken = tokenSent
                \/ ~TokenCurrent(nextToken, tokenSent)
             THEN UNCHANGED <<receivedQueue, nextToken, appended>>
             ELSE /\ receivedQueue' = receivedQueue \o cr.Chats
                  /\ nextToken' = cr.NextToken
                  /\ appended' = Append(appended,
                                         [n |-> n, tokenSent |-> tokenSent,
                                          NextToken |-> cr.NextToken])
    /\ UNCHANGED <<chatQueue, chatToSendIndex, chatReceivedIndex, randID,
                   issuedIds>>
    /\ UNCHANGED minerVars

\* NextChatReceived() (111-119): nil when every chat was handed out
NextChatReceived ==
    /\ LET isNil == ~(chatReceivedIndex < Len(receivedQueue))
       IN /\ chatOut' = [NoChatCall EXCEPT
                           !.fn = "NextChatReceived", !.isNil = isNil,
                           !.r = IF isNil THEN <<>>
                                 ELSE <<receivedQueue[chatReceivedIndex + 1]>>]
          /\ chatReceivedIndex' = IF isNil THEN chatReceivedIndex
                                  ELSE chatReceivedIndex + 1
    /\ UNCHANGED <<chatQueue, chatToSendIndex, receivedQueue, nextToken,
                   randID, fetches, issuedIds, appended>>
    /\ UNCHANGED minerVars


\* mining under one login
Next ==
    \/ LoopRun
    \/ LoopSelect
    \/ LoopThreads
    \/ LoopReconnect
    \/ Login({UserA})
    \/ Stopping
    \/ Hashing
    \/ PoolJobs
    \/ PoolCloses
    \/ Poking
    \/ AtRest /\ \E b \in BOOLEAN : ReportIdleScreenState(b)
    \/ AtRest /\ IncreaseThreads
    \/ AtRest /\ DecreaseThreads

Spec == Init /\ [][Next]_vars

\* concurrent logins
NextLogin ==
    \/ LoopRun
    \/ LoopSelect
    \/ Login(Users)
    \/ Relogin
    \/ Stopping
    \/ PoolCloses
    \/ Poking
    \/ AtRest /\ ReportIdleScreenState(TRUE)

SpecLogin == InitLogin /\ [][NextLogin]_vars
\* a GetMiningState that returns the pool fields of the snapshot as they are
PoolFieldsUntagged(login, user, secondsOld) ==
    [PoolUsername |-> user, SecondsOld |-> secondsOld]

\* GetMiningState 496-503: the pool fields of the response, given plArgs
\* and the pool fields of the snapshot
PoolFields(login, user, secondsOld) ==
    IF login = NoArgs THEN [PoolUsername |-> EmptyString, SecondsOld |-> -1]
    ELSE IF login # user THEN [PoolUsername |-> login, SecondsOld |-> -1]
    ELSE [PoolUsername |-> user, SecondsOld |-> secondsOld]

\* GetMiningState() (487-509): the activity, the recent hashrate and the
\* pool fields of the response; the call changes nothing
GetMiningState ==
    /\ LET as == getMiningActivityState
           pf == PoolFields(plArgs, SnapshotPoolUsername, SnapshotSecondsOld)
       IN evalOut' = [NoEval EXCEPT
             !.fn = "GetMiningState",
             !.MiningActivity = as,
             !.isMining = as > 0,
             !.RecentHashrate = RecentHashrate(as > 0),
             !.PoolUsername = pf.PoolUsername,
             !.SecondsOld = pf.SecondsOld]
    /\ UNCHANGED <<configVars, loginVars, flagVars, clientVars, pokeVars,
                   workerVars, loops, timeVars, counterVars, hashVars, rx,
                   clockVars, crashed, histVars, budget, poolVars, chatVars, lockVars>>

\* a call of timeExcluded() (718-726)
timeExcludedCall ==
    /\ evalOut' = [NoEval EXCEPT !.fn = "timeExcluded",
                                 !.excluded = timeExcluded]
    /\ UNCHANGED <<configVars, loginVars, flagVars, clientVars, pokeVars,
                   workerVars, loops, timeVars, counterVars, hashVars, rx,
                   clockVars, crashed, histVars, budget, poolVars, chatVars, lockVars>>

\* the evaluator on every input, after at most MaxEvalCalls setter calls
NotEvaluated == evalOut = NoEval
NextEval ==
    \/ GetMiningState
    \/ NotEvaluated /\ \E b \in BOOLEAN : OverrideMiningActivityState(b)
    \/ NotEvaluated /\ RemoveMiningActivityOverride
    \/ NotEvaluated /\ \E b \in BOOLEAN : ReportPowerState(b)
    \/ NotEvaluated /\ \E b \in BOOLEAN : ReportIdleScreenState(b)

SpecEval == InitEval /\ [][NextEval]_vars

\* shares found and submitted under one login
NextShare ==
    \/ LoopRun
    \/ LoopSelect
    \/ LoopReconnect
    \/ Login({UserA})
    \/ Stopping
    \/ Hashing
    \/ Sharing
    \/ PoolCloses
    \/ Poking
    \/ AtRest /\ ReportIdleScreenState(TRUE)

SpecShare == InitShare /\ [][NextShare]_vars

\* the stats ledger under any sequence of calls, the clock running
InitStats == InitMiner /\ budget = NoBudget

\* what the calls of the stats package leave alone
StatsFrame ==
    UNCHANGED <<configVars, loginVars, flagVars, clientVars, pokeVars,
                workerVars, loops, counterVars, rx, hour, crashed, budget,
                idleReport, poolVars, chatVars, lockVars>>

\* a second of the clock
Tick ==
    /\ now < MaxNow
    /\ now' = now + 1
    /\ NoStatsCall
    /\ UNCHANGED evalOut
    /\ StatsFrame

\* stats.Init() (37-44)
StatsInit ==
    /\ startTime' = now
    /\ lastResetTime' = now
    /\ lastUpdateTime' = now
    /\ UNCHANGED <<hashVars, hashedSinceReset, now, evalOut, poolVars, chatVars, lockVars>>
    /\ StatsFrame

StatsTally(hashes) ==
    /\ clientSideHashes + hashes <= MaxTallied
    /\ TallyHashes(hashes)
    /\ UNCHANGED <<timeVars, hashedSinceReset, now, evalOut, poolVars, chatVars, lockVars>>
    /\ StatsFrame

StatsReset ==
    /\ ResetRecent
    /\ UNCHANGED <<now, evalOut, poolVars, chatVars, lockVars>>
    /\ StatsFrame

StatsAccurate ==
    /\ RecentStatsNowAccurate
    /\ UNCHANGED <<now, evalOut, poolVars, chatVars, lockVars>>
    /\ StatsFrame

\* stats.GetSnapshot(isMining) (98-148): the recent hashrate of the snapshot
GetSnapshot(isMining) ==
    /\ evalOut' = [NoEval EXCEPT !.fn = "GetSnapshot",
                                 !.isMining = isMining,
                                 !.RecentHashrate = RecentHashrate(isMining)]
    /\ NoStatsCall
    /\ UNCHANGED now
    /\ StatsFrame

NextStats ==
    \/ Tick
    \/ StatsInit
    \/ \E hashes \in 0..2 : StatsTally(hashes)
    \/ StatsReset
    \/ StatsAccurate
    \/ \E isMining \in BOOLEAN : GetSnapshot(isMining)

SpecStats == InitStats /\ [][NextStats]_vars

\* any login state, the pool-side stats not fetched yet
InitPool ==
    /\ InitCommon
    /\ plArgs \in {NoArgs, UserA, UserB}
    /\ cl \in {[alive |-> a, conn |-> 0] : a \in BOOLEAN}
    /\ batteryPower = FALSE
    /\ screenIdle \in BOOLEAN
    /\ miningOverride = 0
    /\ excludeHourStart = 0
    /\ excludeHourEnd = 0
    /\ hour = 12
    /\ budget = NoBudget

\* a goroutine "go stats.RefreshPoolStats(plArgs.Username)" (PoolLogin 232)
\* of this or of an earlier login completes
RefreshPoolStatsDone(username) ==
    /\ RefreshPoolStats(username)
    /\ NoStatsCall
    /\ UNCHANGED <<now, evalOut>>
    /\ UNCHANGED <<configVars, loginVars, flagVars, clientVars, pokeVars,
                   workerVars, loops, counterVars, rx, hour, crashed, budget,
                   idleReport, chatVars, lockVars>>

\* GetMiningState while the pool-side stats are fetched and age
NextPool ==
    \/ Tick
    \/ \E username \in {UserA, UserB} : RefreshPoolStatsDone(username)
    \/ GetMiningState

SpecPool == InitPool /\ [][NextPool]_vars

\* the package variables before InitMiner: the zero values, an engine
\* that was not initialized
InitBefore ==
    /\ InitZero
    /\ OneRandID
    /\ InitFlags
    /\ threads = 0
    /\ rx = NoRx
    /\ excludeHourStart = 0
    /\ excludeHourEnd = 0
    /\ hour = 12
    /\ budget = NoBudget

\* an InitMiner that checks only the upper end of the hour range
BadHoursAbove(hr1, hr2) == hr1 > 24 \/ hr2 > 24

\* InitMiner 270: the hour range check
BadHours(hr1, hr2) == hr1 > 24 \/ hr1 < 0 \/ hr2 > 24 \/ hr2 < 0

\* rx.InitRX(threads) returning code: the engine runs the threads unless it
\* failed
InitRX(n, code) ==
    rx' = IF code < 0 THEN rx ELSE [rx EXCEPT !.threads = n]

\* InitMiner(args) (265-295), once, while rx.InitRX would return code
InitMinerCall(args, code) ==
    /\ evalOut.fn = "none"
    /\ pokeChannel' = <<>>
    /\ LET hr1 == args.ExcludeHourStart
           hr2 == args.ExcludeHourEnd
           r == [NoEval EXCEPT !.fn = "InitMiner", !.args = args]
       IN IF BadHours(hr1, hr2)
          THEN /\ evalOut' = [r EXCEPT !.Code = 3]
               /\ UNCHANGED <<excludeHourStart, excludeHourEnd, rx, timeVars,
                              threads>>
          ELSE /\ excludeHourStart' = hr1
               /\ excludeHourEnd' = hr2
               /\ InitRX(args.Threads, code)
               /\ IF code < 0
                  THEN /\ evalOut' = [r EXCEPT !.engine = code, !.Code = -3]
                       /\ UNCHANGED <<timeVars, threads>>
                  ELSE /\ evalOut' = [r EXCEPT
                             !.engine = code,
                             !.Code = IF code = 2 THEN 2 ELSE 1]
                       /\ startTime' = now
                       /\ lastResetTime' = now
                       /\ lastUpdateTime' = now
                       /\ threads' = args.Threads
    /\ UNCHANGED <<plArgs, lastSeed, loginVars, flagVars, clientVars,
                   pokeSenders, workerVars, loops, counterVars, hashVars,
                   clockVars, crashed, budget, histVars, poolVars, chatVars, lockVars>>

InitMinerArgs ==
    [Threads : 1..MaxThreads, ExcludeHourStart : ArgHours,
     ExcludeHourEnd : ArgHours]

\* InitMiner on every input, at any time
NextInit ==
    \/ Tick
    \/ \E args \in InitMinerArgs, code \in InitRXCodes :
          InitMinerCall(args, code)

SpecInit == InitBefore /\ [][NextInit]_vars


\* InitMiner, then logins of two users in turn, one report of the screen
\* state, a worker that hashes and finds a share
InitRelogin ==
    /\ InitMiner
    /\ budget = [NoBudget EXCEPT !.logins = MaxRelogins, !.calls = MaxReports,
                                 !.hashes = MaxHashes, !.shares = MaxHashes]

\* mining under a login that is replaced
NextRelogin ==
    \/ LoopRun
    \/ LoopSelect
    \/ Login({UserA, UserB})
    \/ Relogin
    \/ Stopping
    \/ Hashing
    \/ Sharing
    \/ Poking
    \/ AtRest /\ ReportIdleScreenState(TRUE)

SpecRelogin == InitRelogin /\ [][NextRelogin]_vars


\* InitMiner, then one login and reports of the screen and of the power
\* state before or after it
InitReport ==
    /\ InitMiner
    /\ budget = [NoBudget EXCEPT !.logins = MaxLogins, !.calls = MaxPowerCalls]

\* the loop under reports of the screen and power state
NextReport ==
    \/ LoopRun
    \/ LoopSelect
    \/ Login({UserA})
    \/ Stopping
    \/ Poking
    \/ AtRest /\ \E b \in BOOLEAN : ReportIdleScreenState(b)
    \/ AtRest /\ \E b \in BOOLEAN : ReportPowerState(b)

SpecReport == InitReport /\ [][NextReport]_vars


\* InitMiner, then a login and a login that replaces it, one report of the
\* screen state, one loss of the connection
InitExit ==
    /\ InitMiner
    /\ budget = [NoBudget EXCEPT !.logins = MaxRelogins, !.calls = MaxReports,
                                 !.drops = MaxDrops]

\* a login replaced while the loop mines, reconnects or backs off
NextExit ==
    \/ LoopRun
    \/ LoopSelect
    \/ LoopReconnect
    \/ Login({UserA})
    \/ Relogin
    \/ Stopping
    \/ PoolCloses
    \/ Poking
    \/ AtRest /\ ReportIdleScreenState(TRUE)

\* goroutines that can run do run; a select with a poke ready over and again
\* takes it in the end (the runtime picks among the ready cases at random)
FairExit ==
    /\ WF_vars(LoopRun)
    /\ WF_vars(LoopReconnect)
    /\ WF_vars(Stopping)
    /\ WF_vars(~crashed /\ \E l \in LoopIds : MiningLoopExit(l))
    /\ WF_vars(AtRest /\ \E p \in Callers : PoolLoginAwaitDone(p))
    /\ SF_vars(AtRest /\ \E l \in LoopIds : SelectPoke(l))

SpecExit == InitExit /\ [][NextExit]_vars /\ FairExit


\* InitMiner, then a login and a login that replaces it, one report of the
\* screen state, a worker that finds a share, one loss of the connection
InitConn ==
    /\ InitMiner
    /\ budget = [NoBudget EXCEPT !.logins = MaxRelogins, !.calls = MaxReports,
                                 !.hashes = MaxHashes, !.shares = MaxHashes,
                                 !.drops = MaxDrops]

\* the client under logins, reconnects of the loop and share submissions
NextConn ==
    \/ LoopRun
    \/ LoopSelect
    \/ LoopReconnect
    \/ AtRest /\ PoolLoginCall(1, UserA)
    \/ AtRest /\ PoolLoginLock(1)
    \/ AtRest /\ PoolLoginConnect(1)
    \/ AtRest /\ PoolLoginPokeExit(1)
    \/ AtRest /\ PoolLoginAwaitDone(1)
    \/ ~crashed /\ \E l \in LoopIds : MiningLoopExit(l)
    \/ Stopping
    \/ Hashing
    \/ Sharing
    \/ PoolCloses
    \/ Poking
    \/ AtRest /\ ReportIdleScreenState(TRUE)

SpecConn == InitConn /\ [][NextConn]_vars

\* a process after init() (32-39): the salt drawn, the queues empty
InitChat ==
    /\ InitZero
    /\ InitFlags
    /\ randID \in RandIDs
    /\ threads = 1
    /\ rx = [NoRx EXCEPT !.threads = 1]
    /\ excludeHourStart = 0
    /\ excludeHourEnd = 0
    /\ hour = 12
    /\ budget = NoBudget

\* chats queued, handed out with shares and reported sent
NextChatOut ==
    \/ \E chat \in Messages : SendChat(chat)
    \/ \E diff \in Diffs : GetChatsToSend(diff)
    \/ \E i \in DOMAIN issuedIds : ChatSent(issuedIds[i])

SpecChatOut == InitChat /\ [][NextChatOut]_vars

\* chats fetched, received and handed out
NextChatIn ==
    \/ NextTokenFetch
    \/ \E n \in DOMAIN fetches :
          \E Chats \in ChatLists(MaxChatsPerFetch) :
             \E NextToken \in ServerNextTokens(fetches[n].tokenSent) :
                ChatsReceived(n, [Chats |-> Chats, NextToken |-> NextToken])
    \/ NextChatReceived

SpecChatIn == InitChat /\ [][NextChatIn]_vars


\* requests for a stats update while the user comes and goes
InitUpdate ==
    /\ InitMiner
    /\ budget = [NoBudget EXCEPT !.logins = MaxLogins,
                                 !.calls = MaxUpdateCalls,
                                 !.jobs = MaxJobs, !.hashes = MaxHashes]

NextUpdate ==
    \/ LoopRun
    \/ LoopSelect
    \/ Login({UserA})
    \/ Stopping
    \/ Hashing
    \/ PoolJobs
    \/ Poking
    \/ AtRest /\ RequestRecentStatsUpdate
    \/ AtRest /\ \E b \in BOOLEAN : ReportIdleScreenState(b)

SpecUpdate == InitUpdate /\ [][NextUpdate]_vars


\* an embedder that reports the states of the machine after InitMiner and
\* then logs in (capi/test.c 143-151)
InitStartup ==
    /\ InitMiner
    /\ budget = [NoBudget EXCEPT !.logins = MaxRelogins,
                                 !.calls = MaxStartupCalls,
                                 !.drops = MaxDrops]

BeforeLogin == AtRest /\ plArgs = NoArgs

\* the reports, then logins, logins that replace a login, reconnects,
\* requests for a stats update
NextStartup ==
    \/ BeforeLogin /\ \E isIdle \in BOOLEAN : ReportIdleScreenState(isIdle)
    \/ BeforeLogin /\ \E battery \in BOOLEAN : ReportPowerState(battery)
    \/ BeforeLogin /\ \E mine \in BOOLEAN : OverrideMiningActivityState(mine)
    \/ BeforeLogin /\ RemoveMiningActivityOverride
    \/ LoopRun
    \/ LoopSelect
    \/ LoopReconnect
    \/ AtRest /\ PoolLoginCall(1, UserA)
    \/ AtRest /\ PoolLoginLock(1)
    \/ AtRest /\ PoolLoginConnect(1)
    \/ AtRest /\ PoolLoginPokeExit(1)
    \/ AtRest /\ PoolLoginAwaitDone(1)
    \/ ~crashed /\ \E l \in LoopIds : MiningLoopExit(l)
    \/ Stopping
    \/ PoolCloses
    \/ AtRest /\ RequestRecentStatsUpdate
    \/ Poking

SpecStartup == InitStartup /\ [][NextStartup]_vars


NextTime == timeExcludedCall

SpecTime == InitTime /\ [][NextTime]_vars

(***************************************************************************)
(* Properties.                                                             *)
(***************************************************************************)
AllIdle == \A p \in Callers : callers[p].pc = "idle"

\* C1: over every interleaving of PoolLogin calls with pokes, jobs and
\* timer wake-ups at most one dispatch loop is live, and it is the one
\* whose done channel PoolLogin holds; a PoolLogin reaches its connect only
\* when no loop is live (it posted Exit and received the done signal of the
\* previous loop); a caller waiting for the done signal holds the login
\* lock; and once a PoolLogin has returned 1 and no other is under way,
\* exactly one loop is live.
C1_OneLoopLive ==
    /\ Cardinality(LiveLoops) <= 1
    /\ \A l \in LiveLoops : miningLoopDoneChan = l
    /\ \A p \in Callers :
          /\ callers[p].pc = "config" =>
                LiveLoops = {} /\ miningLoopDoneChan = 0
          /\ callers[p].pc \in {"exit", "wait", "config"} => doneChanMutex = p
    /\ (AllIdle /\ plArgs # NoArgs) =>
          /\ Cardinality(LiveLoops) = 1
          /\ \E p \in Callers : callers[p].code = 1
          /\ \A l \in LoopIds \ LiveLoops : doneChans[l] = 0

\* a second PoolLogin returned 1 while mining was under way: the first
\* loop is dead, the second is live
C1_Witness ==
    /\ AllIdle
    /\ callers[1].code = 1
    /\ callers[2].code = 1
    /\ loops[1].pc = "dead"
    /\ loops[2].pc = "select"
    /\ workers # {}

InStopWorkers == {"sw_flag", "sw_join", "sw_mark"}

\* C2: every stopWorkers() sets the stop flag, then joins the workers (it
\* goes on only when none is live), then marks the stats accurate
\* (lastUpdateTime is the clock's time when it returns); from its start to
\* its return the stop flag is never cleared and no worker is spawned.
C2_StopWorkersOrder ==
    [][\A l \in LoopIds :
         LET pc == loops[l].pc
             to == loops'[l].pc
         IN /\ (pc = "sw_flag" /\ to # pc) => to = "sw_join" /\ stopper' = 1
            /\ (pc = "sw_join" /\ to # pc) =>
                  to = "sw_mark" /\ stopper = 1 /\ workers = {}
            /\ (pc = "sw_mark" /\ to # pc) =>
                  /\ to = loops[l].ret
                  /\ stopper' = 1
                  /\ workers' = {}
                  /\ lastUpdateTime' = now
            /\ pc \in InStopWorkers =>
                  /\ workers' \subseteq workers
                  /\ stopper' >= stopper]_vars

\* a stopWorkers() that had a hashing worker to join has returned
C2_Witness ==
    \E l \in LoopIds :
       /\ loops[l].pc = "seed"
       /\ clientSideHashes > 0
       /\ lastUpdateTime > 0
       /\ lastUpdateTime = now

\* the loop is about to: reseed the engine; call rx.AddThread or
\* rx.RemoveThread; install the job channel of the new connection
EngineOrSwapSteps == {"seed", "inc", "dec", "swap"}
\* the loop is about to: close the client; reconnect (Connect closes the
\* previous connection and dials a new one)
CloseOrConnectSteps == {"closing", "reconnect"}

\* IncreaseThreads / DecreaseThreads call rx.AddThread / rx.RemoveThread
\* themselves when nobody is logged in
DirectEngineCall == plArgs = NoArgs

Evaluated == evalOut.fn = "GetMiningState"

\* the rules of the activity evaluator, in their order: condition, code
C4_Rules ==
    << <<plArgs = NoArgs, -7>>,
       <<miningOverride = 2, -5>>,
       <<~cl.alive, -2>>,
       <<miningOverride = 1, 2>>,
       <<timeExcluded, -6>>,
       <<batteryPower, -4>>,
       <<~screenIdle, -3>>,
       <<TRUE, 1>> >>

C4_FirstMatch ==
    CHOOSE i \in DOMAIN C4_Rules :
       C4_Rules[i][1] /\ \A j \in 1..(i - 1) : ~C4_Rules[j][1]

C5_WindowOverMidnight ==
    (/\ Evaluated
     /\ excludeHourStart = 22
     /\ excludeHourEnd = 6
     /\ plArgs # NoArgs
     /\ cl.alive
     /\ miningOverride = 0
     /\ ~batteryPower
     /\ screenIdle) =>
       /\ hour = 23 => evalOut.MiningActivity = MINING_PAUSED_TIME_EXCLUDED
       /\ hour = 5 => evalOut.MiningActivity = MINING_PAUSED_TIME_EXCLUDED
       /\ hour = 6 => evalOut.MiningActivity > 0

NoStateChangePending ==
    /\ pokeSenders[STATE_CHANGE_POKE] = 0
    /\ \A i \in DOMAIN pokeChannel : pokeChannel[i] # STATE_CHANGE_POKE

\* C7: after ReportIdleScreenState(false) made with the activity ACTIVE
\* and a loop live, once the loop has handled the
\* StateChange poke and is back at its select (nothing else pauses mining:
\* no override, AC power, hour not excluded), the activity is
\* SCREEN_ACTIVE (NO_CONNECTION where the connection is lost) and no
\* worker is live, also while the connection is lost and the loop has no
\* job.
C7_StoppedAfterScreenActive ==
    \A l \in LoopIds :
       (/\ loops[l].pc = "select"
        /\ NoStateChangePending
        /\ idleReport
        /\ ~screenIdle
        /\ miningOverride = 0
        /\ ~batteryPower
        /\ ~timeExcluded) =>
          /\ getMiningActivityState \in {MINING_PAUSED_SCREEN_ACTIVITY,
                                         MINING_PAUSED_NO_CONNECTION}
          /\ workers = {}

\* the steps of the loop that call stats.RecentStatsNowAccurate() or
\* stats.ResetRecent()
AccurateTimeSteps(l) ==
    \/ loops[l].pc \in {"sw_mark", "init", "threads_reset", "swap", "seed",
                        "eval"}
    \/ loops[l].pc = "poke" /\ loops[l].poke = STATE_CHANGE_POKE

\* C8: every call of RecentStatsNowAccurate and of ResetRecent, the one
\* made for a StateChange poke included, is made with the stop flag set
\* and no worker live.
C8_AccurateTimeOnlyQuiesced ==
    \A l \in LoopIds : AccurateTimeSteps(l) => Quiesced

\* C9: whenever the workers are stopped and joined, recentHashes is the
\* number of hashes computed since the last ResetRecent.
C9_RecentHashesExact == Quiesced => recentHashes = hashedSinceReset

\* C10: workers run only on an engine whose last seeding succeeded, and a
\* seed whose seeding failed is not recorded as the current seed.
C10_NoMiningOnFailedSeed ==
    /\ workers # {} => rx.ok
    /\ ~rx.ok => lastSeed = rx.seed

\* the loop is handling a poke: in handlePoke, or in the stopWorkers() that
\* handlePoke calls for a thread-count change
PokeSteps(l) ==
    \/ loops[l].pc \in {"poke", "inc", "dec", "threads_reset"}
    \/ loops[l].pc \in InStopWorkers /\ loops[l].ret \in {"inc", "dec"}

\* C11: while the loop handles a poke (of any kind) with no cached job, no
\* worker is started and the stop flag is not cleared, and the loop leaves
\* the handling only to go back to its select; the steps that lead to the
\* spawn are taken only with a job.
C11_NoJobNoSpawn ==
    [][\A l \in LoopIds :
         /\ (PokeSteps(l) /\ loops[l].job = NoJob) =>
               /\ workers' \subseteq workers
               /\ stopper' >= stopper
               /\ loops'[l].job = NoJob
               /\ PokeSteps(l)' \/ loops'[l].pc = "select"
         /\ loops'[l].pc \in {"seed", "eval", "spawn"} =>
               loops'[l].job # NoJob]_vars

\* a thread-count poke handled without a job: the engine has the new
\* thread, the loop is about to reset the recent stats and go back to select
C11_Witness ==
    \E l \in LoopIds :
       /\ loops[l].pc = "threads_reset"
       /\ loops[l].job = NoJob
       /\ loops[l].poke = INCREASE_THREADS_POKE
       /\ threads = 2

\* the job of loop l carries a seed that decodes and is not the current one
NewSeedJob(l) ==
    /\ loops[l].job # NoJob
    /\ ~DecodeString(loops[l].job.seed).err
    /\ DecodeString(loops[l].job.seed).bytes # lastSeed

\* C12: a job with a new seed is handled in this order: the workers are
\* stopped and joined (the job is taken into stopWorkers(), and the seed
\* step starts quiesced); then rx.SeedRX is called with the new seed, the
\* seed is recorded and the recent stats are reset, so that a snapshot
\* taken while mining reports the recent hashrate -1, still with no worker
\* live; only then, if the activity is active, workers are spawned, all of
\* them on the new job, whose seed is the current one.
C12_NewSeedOrder ==
    [][\A l \in LoopIds :
         LET pc == loops[l].pc
             to == loops'[l].pc
             S2 == DecodeString(loops[l].job.seed).bytes
         IN /\ (pc = "select" /\ loops'[l].job # loops[l].job
                  /\ loops'[l].job # NoJob) =>
                  to = "sw_flag" /\ loops'[l].ret = "seed"
            /\ (pc = "seed" /\ to # pc /\ NewSeedJob(l)) =>
                  /\ Quiesced
                  /\ to = "eval"
                  /\ \E ok \in BOOLEAN :
                        rx' = [rx EXCEPT !.seed = IF ok THEN S2 ELSE @,
                                         !.ok = ok]
                  /\ lastSeed' = S2
                  /\ recentHashes' = 0
                  /\ RecentHashrate(TRUE)' = NoRecentHashrate
                  /\ workers' = {}
            /\ (pc = "eval" /\ to # pc) =>
                  /\ to \in {"spawn", "select"}
                  /\ to = "spawn" <=> getMiningActivityState > 0
                  /\ workers' = {}
            /\ (pc = "spawn" /\ to # pc) =>
                  /\ workers = {}
                  /\ workers' # {}
                  /\ \A w \in workers' : w.job = loops[l].job
                  /\ lastSeed = S2]_vars

\* workers that had hashed under another seed were joined, the engine was
\* reseeded for a later job and the recent stats reset, and workers now
\* run on that job
C12_Witness ==
    /\ workers # {}
    /\ \A w \in workers : w.job.seed = SeedBB
    /\ lastSeed = DecodeString(SeedBB).bytes
    /\ rx.seed = lastSeed
    /\ rx.ok
    /\ budget.jobs = 0
    /\ clientSideHashes > 0
    /\ recentHashes = 0
    /\ lastResetTime = now

\* shares found so far by the workers (goMine 621-625)
SharesFound == MaxShares - budget.shares

\* the submission goroutines under way, by the share they submit
Submitting(subs) == {t.n : t \in subs}

\* C13: every share found gets at most one outcome. The step that ends a
\* submission is one of: a transport error, which closes the client and
\* leaves shares_accepted and shares_rejected alone; a server error, which
\* adds exactly 1 to shares_rejected; a success, which adds exactly 1 to
\* shares_accepted and the job's difficulty target to pool_side_hashes. No
\* other step changes these counters, so accepted + rejected (+ the
\* submissions under way) never exceeds the shares found; the worker that
\* finds a share stays in the pool, and no submission step removes a worker.
C13_OneOutcomePerShare ==
    [][/\ sharesAccepted' + sharesRejected' + Cardinality(submitters')
             <= SharesFound'
       /\ Cardinality(Submitting(submitters')) = Cardinality(submitters')
       /\ \A t \in submitters :
             t.n \notin Submitting(submitters') =>
                /\ workers' = workers
                /\ \/ /\ ~cl'.alive
                      /\ UNCHANGED counterVars
                   \/ /\ sharesRejected' = sharesRejected + 1
                      /\ UNCHANGED <<sharesAccepted, poolSideHashes, cl>>
                   \/ /\ sharesAccepted' = sharesAccepted + 1
                      /\ poolSideHashes' = poolSideHashes + t.job.diff
                      /\ UNCHANGED <<sharesRejected, cl>>
       /\ Submitting(submitters) \subseteq Submitting(submitters') =>
             UNCHANGED counterVars
       /\ \A t \in submitters' :
             t.n \notin Submitting(submitters) =>
                /\ SharesFound' = SharesFound + 1
                /\ Cardinality(workers') = Cardinality(workers)
                /\ \E w \in workers' : w.job = t.job /\ w.pend = 0]_vars

\* both shares were found on the job of target 2: one was accepted, the
\* submission of the other met a transport error and closed the client; the
\* worker is still in the pool
C13_Witness ==
    /\ SharesFound = 2
    /\ submitters = {}
    /\ sharesAccepted = 1
    /\ sharesRejected = 0
    /\ poolSideHashes = 2
    /\ ~cl.alive
    /\ workers # {}

\* C14: in every state clientSideHashes >= recentHashes >= 0;
\* clientSideHashes never decreases; recentHashes never decreases except
\* in a ResetRecent, which sets it to 0; and what a worker tallies when it
\* leaves or finds a share is the number of hashes it computed, never
\* negative.
C14_HashCounters ==
    [][/\ clientSideHashes' >= recentHashes'
       /\ recentHashes' >= 0
       /\ clientSideHashes' >= clientSideHashes
       /\ \/ recentHashes' >= recentHashes
          \/ recentHashes' = 0 /\ lastResetTime' = now
       /\ \A w \in workers : w.pend >= 0
       /\ clientSideHashes' - clientSideHashes \in
             {0} \cup {w.pend : w \in workers}]_vars

\* hashes were tallied before and after a reset of the recent counter
C14_Witness ==
    /\ recentHashes > 0
    /\ clientSideHashes > recentHashes

\* C15: after stats.Init and any sequence of tallies, resets, accuracy
\* marks and snapshots, with the clock running,
\* lastUpdateTime >= lastResetTime >= startTime, and lastUpdateTime never
\* decreases.
C15_TimesOrdered ==
    [][/\ lastUpdateTime' >= lastResetTime'
       /\ lastResetTime' >= startTime'
       /\ lastUpdateTime' >= lastUpdateTime]_vars

\* the three times are apart: started, later reset, later marked accurate
C15_Witness ==
    /\ startTime > 0
    /\ lastResetTime > startTime
    /\ lastUpdateTime > lastResetTime
    /\ recentHashes > 0

\* the step is a call of stats.GetSnapshot (the ledger is as the call saw it)
SnapshotStep == evalOut' # evalOut /\ evalOut'.fn = "GetSnapshot"

\* the recent hashrate as computed from the recent counter
ComputedRecentHashrate == <<recentHashes, elapsedRecent>>

\* C16: a snapshot taken when lastUpdateTime - lastResetTime <= 5 s never
\* reports a recent hashrate computed from the recent counter: it reports
\* -1 when isMining is true (and the constant 0 otherwise).
C16_NoEarlyRecentHashrate ==
    [][(SnapshotStep /\ elapsedRecent <= 5) =>
          /\ evalOut'.isMining => evalOut'.RecentHashrate = NoRecentHashrate
          /\ evalOut'.RecentHashrate \in {NoRecentHashrate, <<0, 1>>}]_vars

\* a mining snapshot at exactly five seconds of window, hashes tallied,
\* reports -1
C16_Witness ==
    /\ evalOut.fn = "GetSnapshot"
    /\ evalOut.isMining
    /\ evalOut.RecentHashrate = NoRecentHashrate
    /\ elapsedRecent = 5
    /\ recentHashes > 0

\* C17, as stated: a snapshot returns a computed recent hashrate only when
\* isMining and lastUpdateTime - lastResetTime > 5 s, and -1 in every
\* other case, isMining = false included.
C17_SentinelWhenNotMining ==
    [][SnapshotStep =>
          evalOut'.RecentHashrate =
             IF evalOut'.isMining /\ elapsedRecent > 5
             THEN ComputedRecentHashrate
             ELSE NoRecentHashrate]_vars

\* C17, amended: a snapshot returns a computed recent hashrate only when
\* isMining and lastUpdateTime - lastResetTime > 5 s; when isMining and
\* the window is 5 s or less it returns -1; when not mining it returns 0.
C17_RecentHashrateCases ==
    [][SnapshotStep =>
          evalOut'.RecentHashrate =
             IF ~evalOut'.isMining THEN <<0, 1>>
             ELSE IF elapsedRecent > 5 THEN ComputedRecentHashrate
             ELSE NoRecentHashrate]_vars

\* a mining snapshot over a window of more than five seconds reports the
\* hashes of the window over its seconds
C17_Witness ==
    /\ evalOut.fn = "GetSnapshot"
    /\ evalOut.isMining
    /\ elapsedRecent > 5
    /\ recentHashes > 0
    /\ evalOut.RecentHashrate = ComputedRecentHashrate

\* a call of GetMiningState returns
MiningStateStep == evalOut' # evalOut /\ evalOut'.fn = "GetMiningState"

\* GetMiningState 487-509 assigns to nothing but its response
ReadOnlyCall ==
    UNCHANGED <<configVars, loginVars, flagVars, clientVars, pokeVars,
                workerVars, loops, counterVars, hashVars, timeVars, poolVars,
                rx, clockVars, crashed, budget, histVars>>

LoginReturns(p) == callers[p].pc = "config" /\ callers'[p].pc = "idle"

\* the step made a connection and the pool accepted the login on it
FreshLogin(p) ==
    /\ cl'.alive
    /\ conns[cl'.conn].st = "unused"
    /\ conns'[cl'.conn].open
    /\ conns'[cl'.conn].user = LoginName(callers[p].args)

\* C19: PoolLogin returns code 1 exactly when the connection and the login
\* succeeded, and a warning of the pool then comes with code 1 and a
\* message; a code > 1 when the pool refused the login; a code < 0 when the
\* transport failed; code 2, with the client left alone, when the username
\* has a '.'.  With a code other than 1 no loop is started and nobody is
\* logged in: the activity is NO_LOGIN.
C19_LoginCodes ==
    [][\A p \in Callers : LoginReturns(p) =>
        LET args == callers[p].args
            r == callers'[p]
        IN /\ r.code = 1 <=> FreshLogin(p)
           /\ ~HasDot(args) => (r.err <=> ~FreshLogin(p))
           /\ (FreshLogin(p) /\ r.ccode # 0) =>
                 r.code = 1 /\ r.MessageID = r.ccode /\ r.Message # ""
           /\ (~HasDot(args) /\ r.err /\ r.ccode # 0) =>
                 r.code > 1 /\ r.Message # ""
           /\ (~HasDot(args) /\ r.err /\ r.ccode = 0) => r.code < 0
           /\ HasDot(args) => r.code = 2 /\ UNCHANGED clientVars
           /\ r.code # 1 =>
                 /\ UNCHANGED loops
                 /\ miningLoopDoneChan' = 0
                 /\ plArgs' = NoArgs
                 /\ getMiningActivityState' = MINING_PAUSED_NO_LOGIN
           /\ r.code = 1 =>
                 /\ plArgs' = args
                 /\ loops'[miningLoopDoneChan'].pc # "unborn"
                 /\ loops[miningLoopDoneChan'].pc = "unborn"]_vars

\* a login accepted with a warning, then a login that failed in the
\* transport and left nobody logged in
C19_Witness ==
    /\ callers[1].pc = "idle" /\ callers[1].code = 1
    /\ callers[1].MessageID = NO_WALLET_SPECIFIED_WARNING_CODE
    /\ callers[2].pc = "idle" /\ callers[2].code = -1
    /\ plArgs = NoArgs
    /\ LiveLoops = {}


\* a call of InitMiner returns
InitMinerStep == evalOut.fn = "none" /\ evalOut'.fn = "InitMiner"

LoopsBoundToLogin ==
    \A l \in LiveLoops :
        /\ plArgs # NoArgs
        /\ loops[l].jobChan \in ConnIds
        /\ conns[loops[l].jobChan].user = LoginName(plArgs)

\* a loop runs the stats.ResetRecent() of its start (MiningLoop 335)
LoopStartReset(l) == loops[l].pc = "init" /\ loops'[l].pc # "init"

\* C21: across logins, mining and logins that replace a login (accepted
\* or not), startTime never changes and clientSideHashes, sharesAccepted,
\* sharesRejected and poolSideHashes never decrease; a loop that starts
\* resets the recent window only; a loop receives jobs only from the
\* connection of the login it was started for.
C21_LedgerKeptOverRelogin ==
    [][/\ startTime' = startTime
       /\ clientSideHashes' >= clientSideHashes
       /\ sharesAccepted' >= sharesAccepted
       /\ sharesRejected' >= sharesRejected
       /\ poolSideHashes' >= poolSideHashes
       /\ \A l \in LoopIds : LoopStartReset(l) =>
             /\ recentHashes' = 0
             /\ lastResetTime' = now
             /\ UNCHANGED <<startTime, clientSideHashes, counterVars>>
       /\ LoopsBoundToLogin']_vars

\* UserB's loop has started after mining under UserA: the hashes and the
\* accepted share of UserA's login are in the ledger, the recent window
\* is empty
C21_Witness ==
    /\ plArgs = UserB
    /\ clientSideHashes > 0
    /\ sharesAccepted > 0
    /\ poolSideHashes > 0
    /\ recentHashes = 0
    /\ \E l \in LiveLoops :
          /\ loops[l].pc = "select"
          /\ conns[loops[l].jobChan].user = UserB
    /\ \E c \in ConnIds : conns[c].user = UserA

\* the goroutines "go pokeJobDispatcher(STATE_CHANGE_POKE)" started and
\* still blocked
StateChangePosted == pokeSenders[STATE_CHANGE_POKE]
\* the two flags the reports write
ReportFlags == <<screenIdle, batteryPower>>
\* a poke is delivered: it enters pokeChannel
Delivered(poke) ==
    /\ Len(pokeChannel') = Len(pokeChannel) + 1
    /\ pokeChannel'[Len(pokeChannel')] = poke
\* loop l evaluates the activity (MiningLoop 399)
ActivityEvaluated(l) == loops[l].pc = "eval" /\ loops'[l].pc # "eval"

\* C22: ReportIdleScreenState and ReportPowerState post a StateChange poke
\* only in the step that changes the stored flag, and only while somebody
\* is logged in; a step that leaves the flags alone posts none; a poke is
\* delivered in a later step than the one that wrote its flag, from a
\* posted goroutine; and the loop's evaluation of the activity uses the
\* flags as they are stored.
C22_PokeOnChangeOnly ==
    [][/\ StateChangePosted' > StateChangePosted =>
             /\ ReportFlags' # ReportFlags
             /\ plArgs # NoArgs
             /\ StateChangePosted' = StateChangePosted + 1
       /\ ReportFlags' # ReportFlags =>
             /\ StateChangePosted' =
                   StateChangePosted + (IF plArgs # NoArgs THEN 1 ELSE 0)
             /\ UNCHANGED <<configVars, loginVars, miningOverride,
                            clientVars, pokeChannel, workerVars, loops,
                            timeVars, counterVars, hashVars, rx>>
       /\ Delivered(STATE_CHANGE_POKE) =>
             /\ StateChangePosted > 0
             /\ StateChangePosted' = StateChangePosted - 1
             /\ ReportFlags' = ReportFlags
       /\ \A l \in LoopIds : ActivityEvaluated(l) =>
             /\ ReportFlags' = ReportFlags
             /\ loops'[l].lastActivityState =
                  getMiningActivityStateOf(plArgs, miningOverride, IsAlive,
                                           timeExcluded, batteryPower,
                                           screenIdle)]_vars

\* the machine went on battery with the screen idle and a login in place;
\* the poke was delivered and the loop's evaluation found BATTERY_POWER
C22_Witness ==
    /\ batteryPower /\ screenIdle
    /\ InFlightPokes = 0
    /\ \E l \in LiveLoops :
          /\ loops[l].pc = "select"
          /\ loops[l].lastActivityState = MINING_PAUSED_BATTERY_POWER
    /\ workers = {}

\* a request for one thread more or less handled in IncreaseThreads or
\* DecreaseThreads itself: nobody is logged in (530-537, 546-553)
InlineThreadRequest ==
    /\ plArgs = NoArgs
    /\ budget'.calls < budget.calls
    /\ flagVars' = flagVars
\* loop l makes the engine call of a thread-count poke (431, 446)
LoopThreadRequest(l) ==
    loops[l].pc \in {"inc", "dec"} /\ loops'[l].pc \notin {"inc", "dec"}
\* the request ends as the engine's answer says, and returns
ThreadRequestDone ==
    /\ threads' \in {threads, threads + 1, threads - 1}
    /\ rx'.threads = threads'
    /\ ~crashed'
\* loop l starts the workers (411-415)
Spawned(l) == loops[l].pc = "spawn" /\ loops'[l].pc # "spawn"

\* C23: after any requests for one thread more or less, handled by the
\* loop or in the call itself, the thread count GetMiningState reports is
\* the engine's: a request sets it to the count the engine returned and a
\* failed request leaves it unchanged and returns; the next spawn starts
\* that many workers.
C23_ThreadsTrueCount ==
    [][/\ threads' = rx'.threads
       /\ InlineThreadRequest => ThreadRequestDone
       /\ \A l \in LoopIds : LoopThreadRequest(l) => ThreadRequestDone
       /\ \A l \in LoopIds : Spawned(l) =>
             Cardinality(workers' \ workers) = threads]_vars


\* an Exit poke waits in pokeChannel
ExitPosted ==
    \E i \in DOMAIN pokeChannel : pokeChannel[i] = EXIT_LOOP_POKE
\* loop l returns from MiningLoop
LoopReturns(l) == loops[l].pc # "dead" /\ loops'[l].pc = "dead"

\* C24: once an Exit poke is posted to a live loop, the loop in the end
\* stops and joins the workers, returns and signals its done channel, once,
\* and the PoolLogin that waits for it goes on; in every state of the
\* loop, also while the connection is lost and the reconnects fail. The
\* loop returns in no other way.
C24_ExitTerminatesLoop ==
    /\ \A l \in LoopIds :
          (ExitPosted /\ l \in LiveLoops) ~> (loops[l].pc = "dead")
    /\ \A p \in Callers :
          (callers[p].pc = "wait") ~> (callers[p].pc = "config")
    /\ [][\A l \in LoopIds : LoopReturns(l) =>
             /\ loops[l].pc = "exit"
             /\ Quiesced
             /\ doneChans[l] = 0
             /\ doneChans'[l] = 1]_vars
    /\ [][\A l \in LoopIds : doneChans'[l] > doneChans[l] =>
             LoopReturns(l)]_vars
    /\ []~crashed

\* a loop has returned on Exit after its connection was lost and a
\* reconnect failed, and the login that waited for it went on
C24_Witness ==
    \E l \in LoopIds :
        /\ loops[l].pc = "dead"
        /\ loops[l].sleepSec > InitialSleepSec
        /\ loops[l].job = NoJob
        /\ miningLoopDoneChan = 0
        /\ \E p \in Callers : callers[p].pc = "config"

\* the connections made and not closed by the client
OpenConns == {c \in ConnIds : conns[c].open}
\* a goroutine returns from cl.Close(): the loop (357) or a share
\* submission (636)
CloseReturns ==
    \/ \E l \in LoopIds : loops[l].pc = "closing" /\ loops'[l].pc # "closing"
    \/ \E t \in submitters : t.pc = "close" /\ t \notin submitters'
\* share submission t returns from submitRequest
RequestReturns(t) == t \in submitters /\ t.pc = "submit" /\ t \notin submitters'

ChatsHandedOut ==
    chatOut'.fn = "GetChatsToSend" /\ chatToSendIndex' # chatToSendIndex

C26_ChatIdsDistinct ==
    [][ /\ \A i, j \in DOMAIN issuedIds' :
              i # j => issuedIds'[i] # issuedIds'[j]
        /\ \A i \in DOMAIN issuedIds' : issuedIds'[i] = Xor(i - 1, randID)
        /\ Len(issuedIds') = Len(chatQueue')
        /\ ChatsHandedOut =>
              \A k \in DOMAIN chatOut'.r :
                 /\ chatOut'.r[k].ID = issuedIds[chatToSendIndex + k]
                 /\ chatOut'.r[k].Message = chatQueue[chatToSendIndex + k]
      ]_vars

C26_Witness ==
    /\ chatOut.fn = "GetChatsToSend"
    /\ Len(chatOut.r) >= 2
    /\ chatToSendIndex > Len(chatOut.r)
    /\ chatOut.r[1].Message = chatOut.r[2].Message
    /\ randID # 0

(***************************************************************************)
(* C27: for every difficulty d >= 0 and every state of the queue,          *)
(* GetChatsToSend(d) returns at most floor(d / 5000) chats and at most 5,  *)
(* and it advances chatToSendIndex by exactly the number of chats it       *)
(* returned.                                                               *)
(***************************************************************************)
GetChatsToSendStep == chatOut'.fn = "GetChatsToSend" /\ chatOut'.diff >= 0

C27_ChatsPerShare ==
    [][ GetChatsToSendStep =>
           /\ Len(chatOut'.r) <= chatOut'.diff \div 5000
           /\ Len(chatOut'.r) <= 5
           /\ chatToSendIndex' = chatToSendIndex + Len(chatOut'.r)
           /\ chatToSendIndex' <= Len(chatQueue)
           /\ chatQueue' = chatQueue
      ]_vars

C27_Witness ==
    /\ chatOut.fn = "GetChatsToSend"
    /\ chatOut.diff = 30000
    /\ Len(chatOut.r) = 5
    /\ chatToSendIndex < Len(chatQueue)

(***************************************************************************)
(* C28: ChatsReceived with a tokenSent that is not the current nextToken   *)
(* is a no-op: receivedQueue, chatReceivedIndex and nextToken are          *)
(* unchanged. When the tokens match, all the chats of the result are       *)
(* appended in order and nextToken becomes the server's next token. So of  *)
(* two fetches made with the same token, once one was appended with a new  *)
(* token the other is not appended.                                        *)
(***************************************************************************)
ChatsReceivedStep ==
    \E n \in DOMAIN fetches : fetches[n].st = "sent" /\ fetches'[n].st = "done"

C28_StaleFetchDiscarded ==
    [][ /\ ChatsReceivedStep /\ chatOut'.tokenSent # nextToken =>
              UNCHANGED <<receivedQueue, chatReceivedIndex, nextToken>>
        /\ ChatsReceivedStep /\ chatOut'.tokenSent = nextToken =>
              /\ receivedQueue' = receivedQueue \o chatOut'.cr.Chats
              /\ nextToken' = chatOut'.cr.NextToken
              /\ chatReceivedIndex' = chatReceivedIndex
        /\ \A i, j \in DOMAIN appended' :
              i < j /\ appended'[i].tokenSent = appended'[j].tokenSent =>
                 appended'[i].NextToken = appended'[i].tokenSent
      ]_vars

C28_Witness ==
    /\ chatOut.fn = "ChatsReceived"
    /\ chatOut.tokenSent # nextToken
    /\ Len(chatOut.cr.Chats) > 0
    /\ chatOut.cr.NextToken > chatOut.tokenSent
    /\ \E i \in DOMAIN appended :
          /\ appended[i].tokenSent = chatOut.tokenSent
          /\ appended[i].NextToken # chatOut.tokenSent
    /\ chatReceivedIndex > 0

(***************************************************************************)
(* C29: handling an UPDATE_STATS_POKE. As stated: it always leads to       *)
(* stats.RecentStatsNowAccurate() after a stop-and-join, and nothing else  *)
(* changes: recentHashes, lastResetTime, the lifetime counters, threads,   *)
(* lastSeed and the loop's job stay, and an active miner gets its workers  *)
(* back on the same job.                                                   *)
(***************************************************************************)
\* loop l takes a step of the iteration that received an UPDATE_STATS_POKE
UpdateHandling(l) ==
    /\ loops[l].poke = UPDATE_STATS_POKE
    /\ loops[l].pc # "select"
    /\ loops'[l] # loops[l]

\* the step of handlePoke itself
UpdateHandled(l) == UpdateHandling(l) /\ loops[l].pc = "poke"

SignChanged(as, last) == (as < 0 /\ last > 0) \/ (as > 0 /\ last < 0)

NoCallYet == budget.calls = MaxStartupCalls

\* a step of one of the four setters (the only calls made before the login)
SetterCalled == plArgs = NoArgs /\ budget'.calls = budget.calls - 1

FlagsChanged ==
      (IF batteryPower' # batteryPower THEN 1 ELSE 0)
    + (IF screenIdle' # screenIdle THEN 1 ELSE 0)
    + (IF miningOverride' # miningOverride THEN 1 ELSE 0)

\* loop l evaluates the activity for the first time
FirstEvaluation(l) ==
    /\ loops[l].pc = "eval"
    /\ loops[l].lastActivityState = NoActivityYet
    /\ loops'[l] # loops[l]

C30_FlagsKeptOverLogin ==
    [][ /\ NoCallYet' =>
              ~screenIdle' /\ ~batteryPower' /\ miningOverride' = 0
        /\ FlagsChanged > 0 =>
              /\ SetterCalled
              /\ FlagsChanged = 1
              /\ UNCHANGED <<loops, callers, clientVars, plArgs>>
        /\ (loops' # loops \/ callers' # callers \/ clientVars' # clientVars
              \/ plArgs' # plArgs) => UNCHANGED flagVars
        /\ \A l \in LoopIds : FirstEvaluation(l) =>
              loops'[l].lastActivityState =
                 getMiningActivityStateOf(plArgs, miningOverride, IsAlive,
                                          timeExcluded, batteryPower,
                                          screenIdle)
      ]_vars

\* overridden to mine and reported on battery before the first login; the
\* loop of a second login evaluated the activity accordingly
C30_Witness ==
    /\ miningOverride = OVERRIDE_MINE
    /\ batteryPower
    /\ ~screenIdle
    /\ \E l, k \in LoopIds :
          /\ loops[k].pc = "dead"
          /\ loops[l].pc = "spawn"
          /\ loops[l].lastActivityState = MINING_ACTIVE_USER_OVERRIDE

(***************************************************************************)
(* C31: the live workers are none, or exactly threads workers with the     *)
(* thread indices 0 .. threads-1, all hashing one job, the job of the      *)
(* loop; workers of two jobs or of two thread counts are never live        *)
(* together.                                                               *)
(***************************************************************************)
\* the loops that run
RunningLoops == {l \in LoopIds : loops[l].pc \notin {"unborn", "dead"}}

\* the workers hash (the stop flag is clear): the set is complete
WorkersComplete ==
    \E job \in {w.job : w \in workers} :
       /\ {<<w.thread, w.job>> : w \in workers}
             = {<<i, job>> : i \in 0..(threads - 1)}
       /\ \A v, w \in workers : v.thread = w.thread => v = w

\* workers being joined are part of one complete set
WorkersOfOneSpawn ==
    /\ \A v, w \in workers : v.job = w.job /\ (v.thread = w.thread => v = w)
    /\ \A w \in workers : w.thread \in 0..(threads - 1)

\* the workers hash the job of a running loop, or that loop has taken a new
\* job and is stopping them
WorkersOnLoopJob ==
    \E l \in RunningLoops :
       \/ \A w \in workers : w.job = loops[l].job
       \/ loops[l].pc \in {"sw_flag", "sw_join"}

C31_OneWorkerSet ==
    /\ WorkersOfOneSpawn
    /\ workers # {} /\ stopper = 0 => WorkersComplete
    /\ workers # {} => WorkersOnLoopJob

(***************************************************************************)
(* C32: whenever the loop waits in its select with no poke and no job to   *)
(* take, or sleeps between failed reconnects, and the activity is a paused *)
(* one (< 0), no worker is live.                                           *)
(***************************************************************************)
\* loop l blocks in the select: nothing is in the poke channel or on its
\* way there, its job channel is empty and the dispatcher reads on an open
\* connection
LoopWaiting(l) ==
    /\ loops[l].pc = "select"
    /\ InFlightPokes = 0
    /\ conns[loops[l].jobChan].st = "reading"
    /\ conns[loops[l].jobChan].open

\* loop l sleeps after a failed reconnect (367)
LoopBackingOff(l) == loops[l].pc = "sleep"

C32_PausedMeansNoWorkers ==
    \A l \in LoopIds :
       (LoopWaiting(l) \/ LoopBackingOff(l)) /\ getMiningActivityState < 0
          => workers = {}

(***************************************************************************)
(* C33: the loop never goes past its select to the decoding of the seed or *)
(* to the spawn without a job: after a poke, a job, the timer, and after   *)
(* the closed job channel set job to nil and a reconnect succeeded, the    *)
(* job it dereferences at 387 is not nil.                                  *)
(***************************************************************************)
\* loop l is between line 384 and the end of the iteration
PastSelect(l) ==
    \/ loops[l].pc \in {"seed", "eval", "spawn"}
    \/ loops[l].pc \in {"sw_flag", "sw_join", "sw_mark"} /\ loops[l].ret = "seed"

C33_JobNeverNil ==
    \A l \in LoopIds : PastSelect(l) => loops[l].job # NoJob

\* after a reconnect the loop is about to decode the seed of a job it got
\* from the new connection, whose dispatcher reads on
C33_Witness ==
    \E l \in LoopIds :
       /\ loops[l].pc = "seed"
       /\ loops[l].jobChan # 1
       /\ conns[1].st = "closed"
       /\ loops[l].job # NoJob
       /\ conns[loops[l].jobChan].st = "reading"

(***************************************************************************)
(* The stats mutex: GetSnapshot step by step under its lock, against the   *)
(* other calls of the package. A call that locks on entry and unlocks on   *)
(* return is one step that needs the mutex free; RecentStatsNowAccurate    *)
(* (stats.go 48-50) takes no lock. A read of lastUpdateTime that races     *)
(* with the write sees the old or the new time: both are covered by the    *)
(* order of the two steps.                                                 *)
(***************************************************************************)
InitLock == InitMiner /\ budget = NoBudget

LockFrame == UNCHANGED <<timeVars, hashVars, hashedSinceReset, now, evalOut>>

\* GetSnapshot 99-100: mutex.Lock(); defer mutex.Unlock()
GetSnapshotLock(isMining) ==
    /\ snap.pc = "idle"
    /\ statsMutex = ""
    /\ statsMutex' = "GetSnapshot"
    /\ snap' = [NoSnap EXCEPT !.pc = "overall", !.isMining = isMining]
    /\ LockFrame
    /\ UNCHANGED <<configVars, loginVars, flagVars, clientVars, pokeVars,
                   workerVars, loops, counterVars, rx, hour, crashed, budget,
                   idleReport, poolVars, chatVars>>

\* GetSnapshot 107-114: elapsedOverall
GetSnapshotOverall ==
    /\ snap.pc = "overall"
    /\ snap' = [snap EXCEPT !.pc = "recent",
                            !.overallAt = lastUpdateTime,
                            !.elapsedOverall =
                               IF snap.isMining THEN lastUpdateTime - startTime
                               ELSE now - startTime]
    /\ LockFrame
    /\ UNCHANGED <<configVars, loginVars, flagVars, clientVars, pokeVars,
                   workerVars, loops, counterVars, rx, hour, crashed, budget,
                   idleReport, poolVars, chatVars, statsMutex>>

\* GetSnapshot 116: elapsedRecent
GetSnapshotRecent ==
    /\ snap.pc = "recent"
    /\ snap' = [snap EXCEPT !.pc = "return",
                            !.recentAt = lastUpdateTime,
                            !.elapsedRecent = lastUpdateTime - lastResetTime]
    /\ LockFrame
    /\ UNCHANGED <<configVars, loginVars, flagVars, clientVars, pokeVars,
                   workerVars, loops, counterVars, rx, hour, crashed, budget,
                   idleReport, poolVars, chatVars, statsMutex>>

\* GetSnapshot 118-148: the rates from the two elapsed times, return, and the
\* deferred mutex.Unlock()
GetSnapshotReturn ==
    /\ snap.pc = "return"
    /\ snap' = [snap EXCEPT !.pc = "idle"]
    /\ statsMutex' = ""
    /\ evalOut' = [NoEval EXCEPT
          !.fn = "GetSnapshot",
          !.isMining = snap.isMining,
          !.RecentHashrate =
             IF ~snap.isMining THEN <<0, 1>>
             ELSE IF snap.elapsedRecent > 5
                  THEN <<recentHashes, snap.elapsedRecent>>
                  ELSE NoRecentHashrate]
    /\ UNCHANGED <<timeVars, hashVars, hashedSinceReset, now>>
    /\ UNCHANGED <<configVars, loginVars, flagVars, clientVars, pokeVars,
                   workerVars, loops, counterVars, rx, hour, crashed, budget,
                   idleReport, poolVars, chatVars>>

NextLock ==
    \/ Tick
    \/ \E isMining \in BOOLEAN : GetSnapshotLock(isMining)
    \/ GetSnapshotOverall
    \/ GetSnapshotRecent
    \/ GetSnapshotReturn
    \/ statsMutex = "" /\ \E hashes \in 1..2 : StatsTally(hashes)
    \/ statsMutex = "" /\ StatsReset
    \/ StatsAccurate

SpecLock == InitLock /\ [][NextLock]_vars

(***************************************************************************)
(* C34: every write of the accurate time (lastUpdateTime) is made by a     *)
(* caller that holds the stats mutex, so it never changes while a          *)
(* GetSnapshot holds the mutex, and the two reads of one snapshot see the  *)
(* same time.                                                              *)
(***************************************************************************)
C34_AccurateTimeUnderLock ==
    [][/\ statsMutex # "" => lastUpdateTime' = lastUpdateTime
       /\ snap'.pc = "return" => snap'.overallAt = snap'.recentAt]_vars

(***************************************************************************)
(* C35: once the dispatcher of the client's connection has returned and    *)
(* closed the job channel and the response channel, the client is not      *)
(* alive: IsAlive() is false and, for a logged-in miner that no override   *)
(* pauses, the activity is MINING_PAUSED_NO_CONNECTION.                    *)
(***************************************************************************)
\* the dispatcher of the connection the client holds has returned
DispatcherReturned == cl.conn \in ConnIds /\ conns[cl.conn].st = "closed"

C35_NotAliveOnReturn ==
    DispatcherReturned =>
       /\ ~IsAlive
       /\ plArgs # NoArgs /\ miningOverride # OVERRIDE_PAUSE
             => getMiningActivityState = MINING_PAUSED_NO_CONNECTION

\* the engine call of an inline request failed: the engine is as it was
InlineEngineFailure == InlineThreadRequest /\ rx' = rx

\* C36: IncreaseThreads and DecreaseThreads called while nobody is logged
\* in, the engine call failing, return normally: the thread count is
\* unchanged and configMutex is unlocked once, so the process lives on and
\* the mutex is free for the next caller.
C36_InlineFailureUnlocksOnce ==
    [][InlineEngineFailure => threads' = threads /\ ~crashed']_vars

(***************************************************************************)
(* Progress of the locks and of the poke channel: logins and logins that   *)
(* replace a running loop (one of them refused), the loop and its workers, *)
(* requests for a stats update from other threads of the embedder, enough  *)
(* of them to fill the channel, and a report of the screen state and       *)
(* requests for one thread more made while nobody is logged in.            *)
(***************************************************************************)
MaxLiveCalls == 6

InitLive ==
    /\ InitMiner
    /\ budget = [NoBudget EXCEPT !.logins = MaxRelogins,
                                 !.calls = MaxLiveCalls]

NextLive ==
    \/ LoopRun
    \/ LoopSelect
    \/ Login({UserA, UserDot})
    \/ Relogin
    \/ Stopping
    \/ Poking
    \/ AtRest /\ RequestRecentStatsUpdate
    \/ AtRest /\ plArgs = NoArgs /\ IncreaseThreads
    \/ AtRest /\ plArgs = NoArgs /\ ReportIdleScreenState(TRUE)

\* goroutines that can run do run; a goroutine blocked on a send to the
\* poke channel is served in the order of the channel's queue of senders
\* when the loop receives; a select with a case ready over and again takes
\* it in the end (the runtime picks among the ready cases at random)
FairLive ==
    /\ WF_vars(LoopRun)
    /\ WF_vars(~crashed /\ \E l \in LoopIds : MiningLoopExit(l))
    /\ WF_vars(AtRest /\ \E p \in Callers : PoolLoginLock(p))
    /\ WF_vars(AtRest /\ \E p \in Callers : PoolLoginConnect(p))
    /\ WF_vars(Stopping)
    /\ WF_vars(AtRest /\ \E p \in Callers : PoolLoginAwaitDone(p))
    /\ SF_vars(AtRest /\ \E p \in Callers : PoolLoginPokeExit(p))
    /\ SF_vars(Poking)
    /\ SF_vars(AtRest /\ \E l \in LoopIds : SelectPoke(l))

SpecLive == InitLive /\ [][NextLive]_vars /\ FairLive

\* a goroutine is blocked in its send to the full poke channel, no loop
\* runs to receive from it, nobody is logged in and no login is under way
StrandedSender ==
    /\ PendingSenders > 0
    /\ Len(pokeChannel) = PokeChannelCap
    /\ LiveLoops = {}
    /\ plArgs = NoArgs
    /\ \A p \in Callers : callers[p].pc = "idle"

\* C37: no interleaving of the logins, the loop, the setters and the
\* workers ends in a deadlock: the login barrier (doneChanMutex), once
\* locked, is unlocked in the end; the login that posts the Exit poke gets
\* it into the channel; every goroutine that posts a poke gets it into the
\* 5-slot channel in the end, and none is left blocked on the full channel
\* with no loop to receive from it.
C37_LocksAndPokesProgress ==
    /\ \A p \in Callers : (doneChanMutex = p) ~> (doneChanMutex # p)
    /\ \A p \in Callers : (callers[p].pc = "exit") ~> (callers[p].pc = "wait")
    /\ (PendingSenders > 0) ~> (PendingSenders = 0)
    /\ []~StrandedSender

\* submitter t has its request on the wire of connection t.conn
OnTheWire(t) == t.pc = "await"
\* a step that changes the share counters from the response submitter t got
CountedFor(t) ==
    /\ t \in submitters
    /\ t.pc = "await"
    /\ t \notin submitters'
    /\ counterVars' # counterVars

\* C38: a share found under a login is submitted only over a connection
\* made with the credentials of that login: after a PoolLogin of another
\* user a submitter that waited neither writes its request to the new
\* user's connection nor counts the response that comes from it.
C38_ShareOverOwnLogin ==
    [][/\ \A t \in submitters' : OnTheWire(t) => conns'[t.conn].user = t.user
       /\ \A t \in submitters : CountedFor(t) => conns[t.conn].user = t.user]_vars

(***************************************************************************)
(* The queue of chats to send under calls with any id: ids SendChat        *)
(* returned, ids of chats not queued yet, and values that are no id.       *)
(***************************************************************************)
AnyChatIds == {ChatId(k, randID) : k \in 0..MaxChats} \cup {0, MaxRandID}

NextChatAny ==
    \/ \E chat \in Messages : SendChat(chat)
    \/ \E diff \in Diffs : GetChatsToSend(diff)
    \/ HasChatsToSend
    \/ \E id \in AnyChatIds : ChatSent(id)

SpecChatAny == InitChat /\ [][NextChatAny]_vars

\* C39: after any calls of SendChat, GetChatsToSend, HasChatsToSend and
\* ChatSent, with any id, the index of the next chat to send is between 0
\* and the length of the queue; the chats are handed out in the order of
\* the queue, each once; and a chat is passed over only by a ChatSent with
\* the id SendChat returned for it.
C39_SentIndexInQueue ==
    [][/\ 0 <= chatToSendIndex'
       /\ chatToSendIndex' <= Len(chatQueue')
       /\ chatToSendIndex' >= chatToSendIndex
       /\ chatOut'.fn = "GetChatsToSend" =>
             /\ chatToSendIndex' = chatToSendIndex + Len(chatOut'.r)
             /\ \A k \in DOMAIN chatOut'.r :
                   chatOut'.r[k].Message = chatQueue[chatToSendIndex + k]
       /\ chatOut'.fn = "ChatSent" /\ chatToSendIndex' # chatToSendIndex =>
             /\ chatToSendIndex' = chatToSendIndex + 1
             /\ chatOut'.id = issuedIds[chatToSendIndex']
       /\ chatOut'.fn \in {"SendChat", "HasChatsToSend"} =>
             chatToSendIndex' = chatToSendIndex]_vars

====
